---- MODULE Spec2Model ----
(***************************************************************************)
(* Verification model of the Presearch MCP server request pipeline.        *)
(*                                                                         *)
(* The repository holds several servers.  The model follows                *)
(*   - the sliding-window RateLimiter (utils/rate-limiter.ts),             *)
(*   - the v2 server: PresearchServer + PresearchAPIClient + CacheManager  *)
(*     + ErrorHandler + ResponseParser,                                    *)
(*   - the enhanced single-file server PresearchMCPServer with its         *)
(*     SimpleCache, fixed-window limiter and performSearchWithRetry.       *)
(*                                                                         *)
(* Time is the value of Date.now(), counted in abstract ticks.  A handler  *)
(* runs without interruption between two awaits (single-threaded event     *)
(* loop), so each action is one such run.                                  *)
(*                                                                         *)
(* Specifications:                                                         *)
(*   SpecRL     the RateLimiter alone, driven by arbitrary calls and time  *)
(*   SpecRetry  one performSearchWithRetry call against every sequence of  *)
(*              upstream outcomes                                          *)
(*   SpecClient one PresearchAPIClient.makeRequest call against every      *)
(*              sequence of upstream outcomes, with and without mock mode  *)
(*   SpecKey    the cache keys of both servers, on pairs of parameter      *)
(*              objects                                                    *)
(*   SpecCache  the v2 CacheManager alone, with callers that keep and      *)
(*              change the objects they stored or were handed              *)
(*   SpecV2     the v2 server: concurrent tool calls through the rate      *)
(*              limiter, the cache, the API client and the error handler   *)
(*   SpecBoot   server start: every environment through loadConfiguration  *)
(*              and validateConfiguration of both servers                  *)
(*   SpecParse  the ResponseParser on every small upstream payload, raw    *)
(*              and after processResponse                                  *)
(*   SpecWindow the limiter of the enhanced server alone, driven by        *)
(*              arbitrary calls and time                                   *)
(***************************************************************************)
EXTENDS Integers, Sequences, FiniteSets, TLC

VARIABLES
  now,              \* Date.now()
  limit,            \* RateLimiter.limit      (config rateLimit)
  windowMs,         \* RateLimiter.windowMs   (config rateLimitWindow)
  enableRateLimit,  \* config enableRateLimit
  requests,         \* RateLimiter.requests : timestamps of admitted calls
  admitted,         \* history: the time of every call checkLimit admitted
  lastCheck,        \* history: the latest checkLimit call and its answer
  retryConfig,      \* PresearchMCPServer.retryConfig (enhanced server)
  rq,               \* one performSearchWithRetry call of the enhanced server
  config,           \* Configuration.config of the v2 server
  creq,             \* one PresearchAPIClient.makeRequest call, taken alone
  cache,            \* CacheManager.cache : entries in insertion order
  stats,            \* CacheManager.stats
  calls,            \* the tool calls received by the v2 server
  upstream,         \* history: the time of every HTTP request sent upstream
  isConnected,      \* PresearchAPIClient.isConnected
  fp,               \* two parameter objects and their cache keys
  heap,             \* the objects callers of the CacheManager hold, by reference
  hist,             \* history: the last CacheManager operation and its result
  boot,             \* a start of the server: the environment and how far it got
  parsed,           \* one parseSearchResponse call: its input and what it gave
  rateLimiter       \* PresearchMCPServer.rateLimiter (enhanced server)

rlVars == <<limit, windowMs, enableRateLimit, requests, admitted, lastCheck>>

retryVars == <<retryConfig, rq>>

clientVars == <<config, creq>>

serverVars == <<cache, stats, calls, upstream>>

libVars == <<fp, heap, hist>>

aloneVars == <<boot, parsed, rateLimiter>>

vars == <<now, rlVars, retryVars, clientVars, serverVars, isConnected, libVars,
          aloneVars>>

\* What each specification leaves alone.
outsideRL == <<retryVars, clientVars, serverVars, isConnected, libVars,
               aloneVars>>
outsideRetry == <<now, rlVars, clientVars, serverVars, isConnected, libVars,
                  aloneVars>>
outsideClient == <<rlVars, retryVars, serverVars, isConnected, libVars,
                   aloneVars>>
outsideServer == <<retryVars, creq, admitted, lastCheck, isConnected, libVars,
                   aloneVars>>
outsideKey == <<now, rlVars, retryVars, clientVars, serverVars, isConnected,
                heap, hist, aloneVars>>
outsideCache == <<rlVars, retryVars, creq, calls, upstream, isConnected, fp,
                  aloneVars>>
outsideBoot == <<now, rlVars, retryVars, clientVars, serverVars, isConnected,
                 libVars, parsed, rateLimiter>>
outsideParse == <<now, rlVars, retryVars, clientVars, serverVars, isConnected,
                  libVars, boot, rateLimiter>>
outsideWindow == <<rlVars, retryVars, clientVars, serverVars, isConnected,
                   libVars, boot, parsed>>

\* ------------------------------------------------------------------ bounds

MaxTime == 6
MaxLimit == 2
MaxWindow == 3
MaxRetries == 2
MaxCalls == 2
MaxRequests == 2
V2MaxTime == 2
MsPerSecond == 1
MaxProperties == 3
MaxSize == 2
MaxTTL == 2
ExtraSets == 1
MaxGets == 2
MaxMutations == 1
CacheMaxTime == 2

\* The clock advances.
Tick ==
  /\ now < MaxTime
  /\ now' = now + 1

\* The state as the constructors leave it, before any tool call.
ServerStart ==
  /\ cache = <<>>
  /\ stats = [hits |-> 0, misses |-> 0]
  /\ calls = <<>>
  /\ upstream = <<>>

\* The parts of the state a specification does not use stay as constructed.
Unused(parts) ==
  /\ "retry" \in parts =>
       /\ retryConfig = [maxRetries |-> 0, baseDelay |-> 1, maxDelay |-> 1,
                         backoffFactor |-> 1]
       /\ rq = [pc |-> "unused"]
  /\ "client" \in parts =>
       /\ config = [maxRetries |-> 1, retryDelay |-> 1, mockMode |-> FALSE,
                    enableCache |-> TRUE, cacheTTL |-> 1, cacheMaxSize |-> 10]
       /\ creq = [pc |-> "unused"]
  /\ "limiter" \in parts =>
       /\ limit = 1 /\ windowMs = 1 /\ enableRateLimit = FALSE
       /\ requests = <<>> /\ admitted = <<>>
       /\ lastCheck = [kind |-> "none"]
  /\ "key" \in parts => fp = [pc |-> "unused"]
  /\ "boot" \in parts => boot = [pc |-> "unused"]
  /\ "parse" \in parts => parsed = [pc |-> "unused"]
  /\ "window" \in parts => rateLimiter = [pc |-> "unused"]
  /\ "callers" \in parts => (heap = <<>> /\ hist = [kind |-> "none"])
  /\ "server" \in parts => (ServerStart /\ isConnected = FALSE)

\* ------------------------------------------------------------- RateLimiter

\* RateLimiter.cleanup: keep the timestamps strictly younger than the window.
cleanup_keepBoundary(reqs, t) == SelectSeq(reqs, LAMBDA ts : ts >= t - windowMs)

cleanup(reqs, t) == SelectSeq(reqs, LAMBDA ts : ts > t - windowMs)

\* The admission test of checkLimit, on the cleaned list.
withinLimit_offByOne(cleaned) == ~(Len(cleaned) > limit)

withinLimit(cleaned) == ~(Len(cleaned) >= limit)

\* RateLimiter.checkLimit: its return value ...
checkLimitResult(reqs, t) ==
  IF ~enableRateLimit THEN TRUE ELSE withinLimit(cleanup(reqs, t))

\* ... and the timestamp list it leaves behind.
checkLimitRequests_recordsRefusal(reqs, t) ==
  IF ~enableRateLimit THEN reqs ELSE Append(cleanup(reqs, t), t)

checkLimitRequests(reqs, t) ==
  IF ~enableRateLimit THEN reqs
  ELSE IF withinLimit(cleanup(reqs, t)) THEN Append(cleanup(reqs, t), t)
  ELSE cleanup(reqs, t)

\* The number of admissions recorded in the history inside (a, b].
AdmittedIn(a, b) ==
  Cardinality({j \in 1..Len(admitted) : admitted[j] > a /\ admitted[j] <= b})

\* ------------------------------- enhanced server: performSearchWithRetry

\* What the upstream can answer to one axios.get of performSearch: a status
\* (validateStatus lets every status below 500 resolve), or no response at all.
EnhOutcomes ==
  {"ok", "nodata", "s401", "s402", "s403", "s404", "s422", "s429", "s500",
   "timeout", "dns", "neterr"}

\* The message of the Error performSearch throws, as a sequence of phrases.
\* A status below 500 is thrown inside the try block and so re-thrown by its
\* catch as "Unexpected error during search: ..."; a 5xx is the AxiosError itself.
performSearchError(o) ==
  CASE o = "s401" -> <<"Unexpected error during search: ", "Invalid API key">>
    [] o = "s402" -> <<"Unexpected error during search: ", "Payment required">>
    [] o = "s403" -> <<"Unexpected error during search: ", "Access forbidden">>
    [] o = "s422" -> <<"Unexpected error during search: ", "Unprocessable entity: ",
                       "Invalid request parameters">>
    [] o = "s429" -> <<"Unexpected error during search: ", "Rate limit exceeded">>
    [] o = "s404" -> <<"Unexpected error during search: ", "HTTP 404: ", "Request failed">>
    [] o = "nodata" -> <<"Unexpected error during search: ",
                         "Invalid response format: missing data">>
    [] o = "s500" -> <<"Request failed with status code 500">>
    [] o = "timeout" -> <<"Request timeout">>
    [] o = "dns" -> <<"Network error. Please check your internet connection">>
    [] o = "neterr" -> <<"Network error: ", "socket hang up">>
    [] OTHER -> <<>>

\* String.prototype.toLowerCase on a phrase.
toLowerCase(p) ==
  CASE p = "Invalid API key" -> "invalid api key"
    [] p = "Access forbidden" -> "access forbidden"
    [] p = "Rate limit exceeded" -> "rate limit exceeded"
    [] p = "Invalid input parameters: " -> "invalid input parameters: "
    [] p = "Payment required" -> "payment required"
    [] p = "Request timeout" -> "request timeout"
    [] p = "Request failed" -> "request failed"
    [] p = "Search failed: " -> "search failed: "
    [] p = "Unexpected error during search: " -> "unexpected error during search: "
    [] p = "Cats" -> "cats"
    [] p = "Cats " -> "cats "
    [] OTHER -> p

\* String.prototype.trim
trim(p) ==
  CASE p = "cats " -> "cats"
    [] p = "Cats " -> "Cats"
    [] p = " " -> ""
    [] OTHER -> p

\* message.includes(needle), phrase by phrase.
includes(msg, needle) == \E i \in 1..Len(msg) : msg[i] = needle

\* PresearchMCPServer.isNonRetryableError
isNonRetryableError_caseSensitive(msg) ==
  \/ includes(msg, "invalid api key")
  \/ includes(msg, "access forbidden")
  \/ includes(msg, "invalid input parameters: ")
  \/ includes(msg, "rate limit exceeded")

isNonRetryableError(msg) ==
  LET message == [i \in 1..Len(msg) |-> toLowerCase(msg[i])] IN
  \/ includes(message, "invalid api key")
  \/ includes(message, "access forbidden")
  \/ includes(message, "invalid input parameters: ")
  \/ includes(message, "rate limit exceeded")

RECURSIVE pow(_, _)
pow(b, e) == IF e = 0 THEN 1 ELSE b * pow(b, e - 1)

\* PresearchMCPServer.calculateRetryDelay
calculateRetryDelay_uncapped(attempt) ==
  retryConfig.baseDelay * pow(retryConfig.backoffFactor, attempt)

calculateRetryDelay(attempt) ==
  LET delay == retryConfig.baseDelay * pow(retryConfig.backoffFactor, attempt)
  IN  IF delay <= retryConfig.maxDelay THEN delay ELSE retryConfig.maxDelay

\* The for-loop condition of performSearchWithRetry.
loopCondition_exclusive(attempt) == attempt < retryConfig.maxRetries

loopCondition(attempt) == attempt <= retryConfig.maxRetries

\* Entering the loop body at `attempt`: performSearch issues its axios.get, or
\* the loop is over and lastError is thrown.
enterLoop(r, attempt) ==
  IF loopCondition(attempt)
  THEN [r EXCEPT !.pc = "http", !.attempt = attempt]
  ELSE [r EXCEPT !.pc = "thrown", !.attempt = attempt]

\* The upstream answers the pending axios.get with outcome o: performSearch
\* returns or throws, and the catch block of the loop decides what follows.
onOutcome(r, o) ==
  LET logged == [r EXCEPT !.log = Append(r.log, o)] IN
  IF o = "ok" THEN [logged EXCEPT !.pc = "returned"]
  ELSE LET failed == [logged EXCEPT !.lastError = performSearchError(o)] IN
       IF isNonRetryableError(failed.lastError)
       THEN [failed EXCEPT !.pc = "thrown"]
       ELSE IF r.attempt < retryConfig.maxRetries
       THEN [failed EXCEPT !.pc = "sleep",
                           !.sleeps = Append(r.sleeps, calculateRetryDelay(r.attempt))]
       ELSE enterLoop(failed, r.attempt + 1)


\* What the tool callback of the enhanced server, `async (args) => await
\* this.handleSearch(args)`, ends with once performSearchWithRetry has ended as
\* r: the content of a result, or the Error that handleSearch's catch block
\* throws to the caller of the callback.
enhancedHandleSearch(r) ==
  IF r.pc = "returned"
  THEN [kind |-> "content", isError |-> FALSE, cached |-> FALSE]
  ELSE [kind |-> "thrown", name |-> "Error",
        message |-> <<"Search failed: ">> \o r.lastError]

\* A performSearchWithRetry call: where it stands, its locals, and the history
\* of what the upstream answered and of the delays slept.  The delays are
\* capped from the first retry on (maxDelay 1) or not at all (maxDelay 3).
RetryInit ==
  /\ now = 0
  /\ Unused({"window", "boot", "parse", "key", "callers",
            "limiter", "server", "client"})
  /\ retryConfig \in [maxRetries : 0..MaxRetries, baseDelay : {1},
                      maxDelay : {1, 3}, backoffFactor : {2}]
  /\ rq = [pc |-> "idle", attempt |-> 0, lastError |-> <<>>, log |-> <<>>,
           sleeps |-> <<>>]

\* performSearchWithRetry is called.
RetryCall ==
  /\ rq.pc = "idle"
  /\ rq' = enterLoop(rq, 0)
  /\ UNCHANGED <<retryConfig, outsideRetry>>

\* The upstream answers the pending request.
RetryRespond ==
  /\ rq.pc = "http"
  /\ \E o \in EnhOutcomes : rq' = onOutcome(rq, o)
  /\ UNCHANGED <<retryConfig, outsideRetry>>

\* The timer of sleep(delay) fires.
RetrySleepDone ==
  /\ rq.pc = "sleep"
  /\ rq' = enterLoop(rq, rq.attempt + 1)
  /\ UNCHANGED <<retryConfig, outsideRetry>>

RetryNext == RetryCall \/ RetryRespond \/ RetrySleepDone

SpecRetry == RetryInit /\ [][RetryNext]_vars

\* Kinds of upstream outcome, read off the outcome itself.
NonRetryableKind(o) == o \in {"s401", "s403", "s429"}
RetryableKind(o) == o \in EnhOutcomes \ {"ok", "s401", "s403", "s429"}

\* ------------------------------------------------- v2 server: ErrorHandler

\* What the upstream can do to one client.get of the v2 API client.  axios
\* rejects every status outside 2xx; "badbody" is a 2xx answer without a body,
\* on which processResponse throws a TypeError.
ClientOutcomes ==
  {"ok", "s400", "s401", "s403", "s404", "s418", "s422", "s429", "s500",
   "s501", "s502", "s503", "s504", "timeout", "refused", "dns", "neterr",
   "badbody"}

\* The error object a failed attempt leaves in the catch block.
axiosError(status, code) ==
  [isAxiosError |-> TRUE, name |-> "AxiosError", status |-> status, code |-> code]

attemptError(o) ==
  CASE o = "s400" -> axiosError(400, "ERR_BAD_REQUEST")
    [] o = "s401" -> axiosError(401, "ERR_BAD_REQUEST")
    [] o = "s403" -> axiosError(403, "ERR_BAD_REQUEST")
    [] o = "s404" -> axiosError(404, "ERR_BAD_REQUEST")
    [] o = "s418" -> axiosError(418, "ERR_BAD_REQUEST")
    [] o = "s422" -> axiosError(422, "ERR_BAD_REQUEST")
    [] o = "s429" -> axiosError(429, "ERR_BAD_REQUEST")
    [] o = "s500" -> axiosError(500, "ERR_BAD_RESPONSE")
    [] o = "s501" -> axiosError(501, "ERR_BAD_RESPONSE")
    [] o = "s502" -> axiosError(502, "ERR_BAD_RESPONSE")
    [] o = "s503" -> axiosError(503, "ERR_BAD_RESPONSE")
    [] o = "s504" -> axiosError(504, "ERR_BAD_RESPONSE")
    [] o = "timeout" -> axiosError(0, "ECONNABORTED")
    [] o = "refused" -> axiosError(0, "ECONNREFUSED")
    [] o = "dns" -> axiosError(0, "ENOTFOUND")
    [] o = "neterr" -> axiosError(0, "ERR_NETWORK")
    [] OTHER -> [isAxiosError |-> FALSE, name |-> "TypeError", status |-> 0,
                 code |-> "", message |-> "Cannot read properties of undefined"]

\* The PresearchError classes: name, code, statusCode (0: undefined), message.
PresearchError(message, code, statusCode) ==
  [isAxiosError |-> FALSE, name |-> "PresearchError", code |-> code,
   statusCode |-> statusCode, message |-> message]

APIError(message, statusCode) == PresearchError(message, "API_ERROR", statusCode)
ValidationError(message) == PresearchError(message, "VALIDATION_ERROR", 400)

\* ErrorHandler.handleAxiosError; RateLimitError and TimeoutError are the
\* PresearchErrors with codes RATE_LIMIT_ERROR and TIMEOUT_ERROR.
handleAxiosError(e) ==
  CASE e.status = 400 -> ValidationError("Bad request")
    [] e.status = 401 -> APIError("Unauthorized: Invalid API key", 401)
    [] e.status = 403 -> APIError("Forbidden: Access denied", 403)
    [] e.status = 404 -> APIError("Not found: Endpoint does not exist", 404)
    [] e.status = 429 -> PresearchError("Rate limit exceeded", "RATE_LIMIT_ERROR", 429)
    [] e.status = 500 -> APIError("Internal server error", 500)
    [] e.status = 502 -> APIError("Bad gateway", 502)
    [] e.status = 503 -> APIError("Service unavailable", 503)
    [] e.status = 504 -> APIError("Gateway timeout", 504)
    [] OTHER ->
         IF e.code = "ECONNABORTED" THEN PresearchError("Request timeout", "TIMEOUT_ERROR", 408)
         ELSE IF e.code = "ECONNREFUSED" THEN APIError("Connection refused", 0)
         ELSE IF e.code = "ENOTFOUND" THEN APIError("DNS resolution failed", 0)
         ELSE APIError("Network error", e.status)

\* ErrorHandler.handleError, with handleZodError (a ValidationError) and
\* handleGenericError (a PresearchError with code UNKNOWN_ERROR) in place.
handleError(e) ==
  IF e.name = "PresearchError" THEN e
  ELSE IF e.isAxiosError THEN handleAxiosError(e)
  ELSE IF e.name = "ZodError" THEN ValidationError("Validation failed")
  ELSE PresearchError(e.message, "UNKNOWN_ERROR", 0)

\* ---------------------------------------- v2 server: PresearchAPIClient

NoError == [isAxiosError |-> FALSE, name |-> "null"]

\* The value of a property or variable that is not set.
Undefined == "undefined"

\* A raw result item: an object with its url, link and timestamp properties
\* ("" and NoTimestamp when it has none), or something that is not an object.
NoTimestamp == -1

Item(url, link, timestamp) ==
  [isObject |-> TRUE, url |-> url, link |-> link, timestamp |-> timestamp]

\* An upstream payload or an APIResponse as far as the parser reads it: whether
\* it is an object at all; whether its `results` is missing, a list or
\* something else; the list; `total`, 0 when it has none; and `source`.
Payload(resultsKind, results, total) ==
  [isObject |-> TRUE, resultsKind |-> resultsKind, results |-> results,
   total |-> total, source |-> Undefined]

\* PresearchAPIClient.processResponse: the defaults, then `...data` on top.
processResponse(q, data) ==
  [kind |-> "response", success |-> TRUE, query |-> "", isObject |-> TRUE,
   resultsKind |-> IF data.resultsKind = "missing" THEN "list"
                   ELSE data.resultsKind,
   results |-> data.results, total |-> data.total, source |-> "presearch-api"]

\* PresearchAPIClient.getMockResponse at the clock reading `now`: the two mock
\* results carry `new Date()` as their timestamp.
getMockResponse(q, operation) ==
  LET listed == operation \notin {"suggestions", "analytics"} IN
  [kind |-> "response", success |-> TRUE,
   query |-> IF q # "" THEN q ELSE "test",
   isObject |-> TRUE,
   resultsKind |-> IF listed THEN "list" ELSE "missing",
   results |-> IF listed
               THEN <<Item("https://example.com/mock-result", "", now),
                      Item("https://example.com/mock-result-2", "", now)>>
               ELSE <<>>,
   total |-> IF listed THEN 2 ELSE 0,
   source |-> "mock-data"]

\* The locals of one makeRequest call and the history of its attempts.
NewRequest(q, operation) ==
  [pc |-> "new", q |-> q, operation |-> operation, attempt |-> 1,
   lastError |-> NoError, log |-> <<>>, delays |-> <<>>, wakeAt |-> 0,
   result |-> [kind |-> "none"]]

\* After the loop: mock data or the classified error.
afterLoop_neverMock(r) ==
  [r EXCEPT !.pc = "thrown", !.result = handleError(r.lastError)]

afterLoop(r) ==
  IF config.mockMode
  THEN [r EXCEPT !.pc = "returned", !.result = getMockResponse(r.q, r.operation)]
  ELSE [r EXCEPT !.pc = "thrown",
                 !.result = IF r.lastError = NoError
                            THEN [name |-> "TypeError", isAxiosError |-> FALSE,
                                  message |-> "Cannot read properties of null"]
                            ELSE handleError(r.lastError)]

\* Entering the loop body at `attempt`: client.get is issued, or the loop is over.
startAttempt(r, attempt) ==
  IF attempt <= config.maxRetries
  THEN [r EXCEPT !.pc = "http", !.attempt = attempt]
  ELSE afterLoop([r EXCEPT !.attempt = attempt])

\* What the catch block remembers of a failed attempt.
rememberError_first(r, e) == IF r.lastError = NoError THEN e ELSE r.lastError

rememberError(r, e) == e

\* The pending client.get settles with outcome o (body: the upstream payload).
onResponse(r, o, body, t) ==
  LET logged == [r EXCEPT !.log = Append(r.log, o)] IN
  IF o = "ok"
  THEN [logged EXCEPT !.pc = "returned", !.result = processResponse(r.q, body)]
  ELSE LET failed == [logged EXCEPT !.lastError = rememberError(r, attemptError(o))] IN
       IF r.attempt < config.maxRetries
       THEN [failed EXCEPT !.pc = "delay",
                           !.wakeAt = t + config.retryDelay * r.attempt,
                           !.delays = Append(r.delays, config.retryDelay * r.attempt)]
       ELSE startAttempt(failed, r.attempt + 1)

\* The retry delay is over: attempt++ and the next iteration.
afterDelay(r) == startAttempt([r EXCEPT !.wakeAt = 0], r.attempt + 1)

\* ------------------------------------------------- v2 server: CacheManager

\* The constructor's cacheTTL * 1000: seconds to clock ticks, a second of the
\* model being MsPerSecond ticks long.
defaultTTL == config.cacheTTL * MsPerSecond

\* A parameter object is the sequence of its <<name, value>> properties in
\* insertion order; a property may hold Undefined.

\* The property names of the search parameters, in the order of
\* Array.prototype.sort (by UTF-16 code units).
keyRank(name) ==
  LET KeyNames == <<"ip", "lang", "location", "page", "q", "query", "safe",
                    "time">>
  IN  CHOOSE i \in 1..Len(KeyNames) : KeyNames[i] = name

\* params[name]
property(params, name) ==
  IF \E i \in 1..Len(params) : params[i][1] = name
  THEN params[CHOOSE i \in 1..Len(params) : params[i][1] = name][2]
  ELSE Undefined

\* Object.keys(params).sort(): insertion of each name at its place.
RECURSIVE insertSorted(_, _)
insertSorted(names, name) ==
  IF names = <<>> THEN <<name>>
  ELSE IF keyRank(name) < keyRank(Head(names)) THEN <<name>> \o names
  ELSE <<Head(names)>> \o insertSorted(Tail(names), name)

RECURSIVE sortKeys(_)
sortKeys(names) ==
  IF names = <<>> THEN <<>>
  ELSE insertSorted(sortKeys(Tail(names)), Head(names))

\* JSON.stringify of an object: its properties in order, without the
\* undefined ones.
stringify(obj) == SelectSeq(obj, LAMBDA pr : pr[2] # Undefined)

\* CacheManager.generateKey: the parameters with their keys sorted, as JSON.
generateKey_unsorted(params) == stringify(params)

generateKey(params) ==
  LET sorted == sortKeys([i \in 1..Len(params) |-> params[i][1]]) IN
  stringify([i \in 1..Len(sorted) |-> <<sorted[i], property(params, sorted[i])>>])

NoEntry == 0

\* Map.get / Map.has: the position of the entry stored under key, or NoEntry.
cacheIndex(c, key) ==
  IF \E i \in 1..Len(c) : c[i].key = key
  THEN CHOOSE i \in 1..Len(c) : c[i].key = key
  ELSE NoEntry

cacheHas(c, key) == cacheIndex(c, key) # NoEntry

\* Map.delete
cacheDelete(c, key) == SelectSeq(c, LAMBDA e : e.key # key)

\* The expiry test shared by get and cleanup.
expired_ignoresTTL(e, t) == t > e.timestamp

expired(e, t) == t > e.timestamp + e.ttl

Null == [kind |-> "null"]

\* CacheManager.get: the value returned and the cache and stats left behind.
cacheGet_expiredUncounted(c, st, key, t) ==
  LET i == cacheIndex(c, key) IN
  IF ~config.enableCache
  THEN [hit |-> FALSE, value |-> Null, cache |-> c, stats |-> st]
  ELSE IF i = NoEntry
  THEN [hit |-> FALSE, value |-> Null, cache |-> c,
        stats |-> [st EXCEPT !.misses = @ + 1]]
  ELSE IF expired(c[i], t)
  THEN [hit |-> FALSE, value |-> Null, cache |-> cacheDelete(c, key),
        stats |-> st]
  ELSE [hit |-> TRUE, value |-> c[i].data,
        cache |-> [c EXCEPT ![i].hits = @ + 1],
        stats |-> [st EXCEPT !.hits = @ + 1]]

cacheGet(c, st, key, t) ==
  LET i == cacheIndex(c, key) IN
  IF ~config.enableCache
  THEN [hit |-> FALSE, value |-> Null, cache |-> c, stats |-> st]
  ELSE IF i = NoEntry
  THEN [hit |-> FALSE, value |-> Null, cache |-> c,
        stats |-> [st EXCEPT !.misses = @ + 1]]
  ELSE IF expired(c[i], t)
  THEN [hit |-> FALSE, value |-> Null, cache |-> cacheDelete(c, key),
        stats |-> [st EXCEPT !.misses = @ + 1]]
  ELSE [hit |-> TRUE, value |-> c[i].data,
        cache |-> [c EXCEPT ![i].hits = @ + 1],
        stats |-> [st EXCEPT !.hits = @ + 1]]

\* CacheManager.evictOldest: the scan starts from oldestTimestamp = Date.now()
\* and keeps the first entry with a strictly smaller timestamp at each step.
RECURSIVE oldestFrom(_, _, _, _)
oldestFrom(c, i, oldestKey, oldestTimestamp) ==
  IF i > Len(c) THEN oldestKey
  ELSE IF c[i].timestamp < oldestTimestamp
  THEN oldestFrom(c, i + 1, i, c[i].timestamp)
  ELSE oldestFrom(c, i + 1, oldestKey, oldestTimestamp)

evictOldest(c, t) ==
  LET oldest == oldestFrom(c, 1, NoEntry, t) IN
  IF oldest # NoEntry THEN cacheDelete(c, c[oldest].key) ELSE c

\* CacheManager.set, with the default TTL.
cacheSet_keepExisting(c, key, data, t) ==
  IF ~config.enableCache \/ cacheHas(c, key) THEN c
  ELSE Append(IF Len(c) >= config.cacheMaxSize THEN evictOldest(c, t) ELSE c,
              [key |-> key, data |-> data, timestamp |-> t,
               ttl |-> defaultTTL, hits |-> 0])

cacheSet(c, key, data, t) ==
  IF ~config.enableCache THEN c
  ELSE
    LET room == IF Len(c) >= config.cacheMaxSize /\ ~cacheHas(c, key)
                THEN evictOldest(c, t) ELSE c
        entry == [key |-> key, data |-> data, timestamp |-> t,
                  ttl |-> defaultTTL, hits |-> 0]
        i == cacheIndex(room, key)
    IN IF i = NoEntry THEN Append(room, entry)
       ELSE [room EXCEPT ![i] = entry]

\* RegExp(pattern).test(key) for the patterns used here: a plain word matches
\* the keys whose JSON text contains it, as the name or as the value of a
\* property.
patternMatches(pattern, key) ==
  \E i \in 1..Len(key) : key[i][1] = pattern \/ key[i][2] = pattern

\* CacheManager.deleteByPattern
deleteByPattern(c, pattern) ==
  SelectSeq(c, LAMBDA e : ~patternMatches(pattern, e.key))

\* CacheManager.cleanup, the body of the five-minute timer.
cacheCleanup_atExpiry(c, t) ==
  SelectSeq(c, LAMBDA e : ~(t >= e.timestamp + e.ttl))

cacheCleanup(c, t) == SelectSeq(c, LAMBDA e : ~expired(e, t))

\* CacheManager.getStats, without the derived hit rate.
getStats(c, st) ==
  [size |-> Len(c), maxSize |-> config.cacheMaxSize,
   hits |-> st.hits, misses |-> st.misses]

\* ----------------------------------------------- v2 server: PresearchServer

\* The payloads the upstream answers with: a list of one result, and a
\* `results` that is not a list.
Bodies == {Payload("list", <<Item("u1", "", 0)>>, 0), Payload("notlist", <<>>, 0)}

\* The arguments a client sends with each tool.
ArgsOf(tool) ==
  CASE tool = "presearch_search" -> {[q |-> "q1"], [q |-> " "], [q |-> ""]}
    [] tool = "presearch_multi_search" ->
         {[queries |-> <<"q1", "q2">>], [queries |-> <<"q1">>]}
    [] tool = "presearch_cache_clear" -> {[pattern |-> ""], [pattern |-> "q1"]}
    [] OTHER -> {[none |-> TRUE]}

\* A thrown `new Error(message)` and a thrown ZodError.
Error(message) == [isAxiosError |-> FALSE, name |-> "Error", message |-> message]

ZodError == [isAxiosError |-> FALSE, name |-> "ZodError", message |-> "invalid"]

\* SearchParamsSchema.parse: q of at least one character, page defaults to 1.
searchArgsValid(args) == args.q # ""

SearchParams(args) == <<<<"q", args.q>>, <<"page", "1">>>>

\* MultiSearchParamsSchema.parse: two to five non-empty queries.
multiArgsValid(args) ==
  /\ Len(args.queries) >= 2 /\ Len(args.queries) <= 5
  /\ \A k \in 1..Len(args.queries) : args.queries[k] # ""

\* The body of results.map in normalizeSearchResults at the clock reading
\* `now`: reading a property of something that is not an object throws, and the
\* catch gives the item an empty url.
normalizeItem(result) ==
  IF ~result.isObject
  THEN [url |-> "", timestamp |-> now]
  ELSE [url |-> IF result.url # "" THEN result.url ELSE result.link,
        timestamp |-> IF result.timestamp # NoTimestamp THEN result.timestamp
                      ELSE now]

\* ResponseParser.normalizeSearchResults: map, then filter(result => result.url)
normalizeSearchResults(results) ==
  SelectSeq([i \in 1..Len(results) |-> normalizeItem(results[i])],
            LAMBDA item : item.url # "")

\* ResponseParser.parseSearchResponse: the try block, and the catch block for
\* a response that is not an object (reading response.results throws) or
\* whose results has no map method.
parseSearchResponse(response, query) ==
  IF ~response.isObject \/ response.resultsKind = "notlist"
  THEN [query |-> query, results |-> <<>>, total |-> 0,
        source |-> "error-fallback"]
  ELSE LET results == normalizeSearchResults(
                        IF response.resultsKind = "missing" THEN <<>>
                        ELSE response.results)
       IN [query |-> query, results |-> results,
           total |-> IF response.total # 0 THEN response.total
                     ELSE Len(results),
           source |-> IF response.source = Undefined THEN "presearch-api"
                      ELSE response.source,
           cached |-> FALSE]

\* What apiClient.multiSearch puts in place of a query whose makeRequest threw.
multiSearchFailure(query, e) ==
  [kind |-> "response", success |-> FALSE, error |-> e.message, query |-> query,
   results |-> <<>>, total |-> 0]

\* `result.error` is truthy: the entry has an error property that is not the
\* empty string.
hasError(result) == "error" \in DOMAIN result /\ result.error # ""

\* ResponseParser.parseMultiSearchResponse
parseMultiSearchResponse(responses, queries) ==
  LET results == [k \in 1..Len(responses) |->
                    IF responses[k].success
                    THEN parseSearchResponse(responses[k], queries[k])
                    ELSE [query |-> queries[k], results |-> <<>>, total |-> 0,
                          source |-> "error", error |-> responses[k].error]]
  IN [success |-> TRUE,
      data |-> [queries |-> Len(queries),
                successful |-> Cardinality({k \in 1..Len(results) :
                                              ~hasError(results[k])}),
                results |-> results]]

\* The two shapes the CallTool handler returns.
resultEnvelope(result) == [isError |-> FALSE, text |-> result]

errorEnvelope(e) ==
  LET handledError == handleError(e) IN
  [isError |-> TRUE,
   text |-> [success |-> FALSE, error |-> handledError.message,
             code |-> handledError.code]]

NoEnvelope == [isError |-> FALSE, text |-> Null]

\* RateLimiter.getStatus on the cleaned list.
getStatus(cleaned, t) ==
  [remaining |-> IF limit - Len(cleaned) > 0 THEN limit - Len(cleaned) ELSE 0,
   limit |-> limit,
   resetTime |-> (IF Len(cleaned) > 0 THEN cleaned[1] ELSE t) + windowMs,
   windowStart |-> t - windowMs]

\* What a handler leaves behind when it returns or reaches its first await:
\* where the call stands, its pending makeRequest calls, its envelope, and the
\* cache, the cache statistics and the limiter's list.
Handled(pc, key, reqs, envelope, c, st, rl) ==
  [pc |-> pc, key |-> key, reqs |-> reqs, envelope |-> envelope,
   cache |-> c, stats |-> st, requests |-> rl]

NoKey == <<>>

\* PresearchServer.handleSearch up to `await apiClient.search(params)`.
handleSearch_coalesces(args, rl, t) ==
  IF ~searchArgsValid(args)
  THEN Handled("done", NoKey, <<>>, errorEnvelope(ZodError), cache, stats, rl)
  ELSE
    LET params == SearchParams(args)
        cacheKey == generateKey(params)
        cachedResult == cacheGet(cache, stats, cacheKey, t)
    IN IF cachedResult.hit
       THEN Handled("done", cacheKey, <<>>, resultEnvelope(cachedResult.value),
                    cachedResult.cache, cachedResult.stats, rl)
       ELSE IF \E c \in 1..Len(calls) :
                 calls[c].pc = "waiting" /\ calls[c].key = cacheKey
       THEN Handled("waiting", cacheKey, <<>>, NoEnvelope,
                    cachedResult.cache, cachedResult.stats, rl)
       ELSE Handled("waiting", cacheKey,
                    <<startAttempt(NewRequest(property(params, "q"), "search"), 1)>>,
                    NoEnvelope, cachedResult.cache, cachedResult.stats, rl)

handleSearch(args, rl, t) ==
  IF ~searchArgsValid(args)
  THEN Handled("done", NoKey, <<>>, errorEnvelope(ZodError), cache, stats, rl)
  ELSE
    LET params == SearchParams(args)
        cacheKey == generateKey(params)
        cachedResult == cacheGet(cache, stats, cacheKey, t)
    IN IF cachedResult.hit
       THEN Handled("done", cacheKey, <<>>, resultEnvelope(cachedResult.value),
                    cachedResult.cache, cachedResult.stats, rl)
       ELSE Handled("waiting", cacheKey,
                    <<startAttempt(NewRequest(property(params, "q"), "search"), 1)>>,
                    NoEnvelope, cachedResult.cache, cachedResult.stats, rl)

\* PresearchServer.handleMultiSearch up to `await apiClient.multiSearch(params)`:
\* one makeRequest per query, all started at once.
handleMultiSearch(args, rl, t) ==
  IF ~multiArgsValid(args)
  THEN Handled("done", NoKey, <<>>, errorEnvelope(ZodError), cache, stats, rl)
  ELSE Handled("waiting", NoKey,
               [k \in 1..Len(args.queries) |->
                  startAttempt(NewRequest(args.queries[k], "multi-search"), 1)],
               NoEnvelope, cache, stats, rl)

\* PresearchServer.handleCacheStats
handleCacheStats(rl, t) ==
  LET cleaned == cleanup(rl, t) IN
  Handled("done", NoKey, <<>>,
          resultEnvelope([success |-> TRUE,
                          data |-> [cache |-> getStats(cache, stats),
                                    rateLimit |-> getStatus(cleaned, t)]]),
          cache, stats, cleaned)

\* PresearchServer.handleCacheClear
handleCacheClear(args, rl, t) ==
  LET left == IF args.pattern # "" THEN deleteByPattern(cache, args.pattern)
              ELSE <<>>
      st == IF args.pattern # "" THEN stats ELSE [hits |-> 0, misses |-> 0]
  IN Handled("done", NoKey, <<>>,
             resultEnvelope([success |-> TRUE,
                             data |-> [clearedCount |-> Len(cache) - Len(left),
                                       pattern |-> args.pattern]]),
             left, st, rl)

\* PresearchServer.handleToolCall
handleToolCall_refetchesSynthetic(toolName, args, rl, t) ==
  CASE toolName = "presearch_search" ->
         LET h == handleSearch(args, rl, t) IN
         IF /\ h.pc = "done" /\ ~h.envelope.isError
            /\ h.envelope.text.source \in {"mock-data", "error-fallback"}
         THEN Handled("waiting", h.key,
                      <<startAttempt(NewRequest(args.q, "search"), 1)>>,
                      NoEnvelope, h.cache, h.stats, rl)
         ELSE h
    [] toolName = "presearch_multi_search" -> handleMultiSearch(args, rl, t)
    [] toolName = "presearch_cache_stats" -> handleCacheStats(rl, t)
    [] toolName = "presearch_cache_clear" -> handleCacheClear(args, rl, t)
    [] OTHER -> Handled("done", NoKey, <<>>,
                        errorEnvelope(Error("Unknown tool")), cache, stats, rl)

handleToolCall(toolName, args, rl, t) ==
  CASE toolName = "presearch_search" -> handleSearch(args, rl, t)
    [] toolName = "presearch_multi_search" -> handleMultiSearch(args, rl, t)
    [] toolName = "presearch_cache_stats" -> handleCacheStats(rl, t)
    [] toolName = "presearch_cache_clear" -> handleCacheClear(args, rl, t)
    [] OTHER -> Handled("done", NoKey, <<>>,
                        errorEnvelope(Error("Unknown tool")), cache, stats, rl)

\* The CallTool handler: the rate limit check, then the tool's handler.
callTool(toolName, args, t) ==
  LET rl == checkLimitRequests(requests, t) IN
  IF ~checkLimitResult(requests, t)
  THEN Handled("done", NoKey, <<>>,
               errorEnvelope(Error("Rate limit exceeded. Please try again later.")),
               cache, stats, rl)
  ELSE handleToolCall(toolName, args, rl, t)

\* Every makeRequest of the call has returned or thrown.
settled(reqs) == \A k \in 1..Len(reqs) : reqs[k].pc \in {"returned", "thrown"}

\* The rest of handleSearch / handleMultiSearch once the awaited promise has
\* settled, and the CallTool handler's try/catch around it.
resume_failFast(call, reqs, t) ==
  IF \E k \in 1..Len(reqs) : reqs[k].pc = "thrown"
  THEN LET k == CHOOSE j \in 1..Len(reqs) : reqs[j].pc = "thrown" IN
       Handled("done", call.key, reqs, errorEnvelope(reqs[k].result),
               cache, stats, requests)
  ELSE LET responses == [k \in 1..Len(reqs) |-> reqs[k].result] IN
       IF call.tool = "presearch_search"
       THEN LET result == parseSearchResponse(reqs[1].result, call.args.q) IN
            Handled("done", call.key, reqs,
                    resultEnvelope([success |-> TRUE, data |-> result]),
                    cacheSet(cache, call.key, result, t), stats, requests)
       ELSE Handled("done", call.key, reqs,
                    resultEnvelope(parseMultiSearchResponse(responses,
                                                            call.args.queries)),
                    cache, stats, requests)

resume(call, reqs, t) ==
  IF call.tool = "presearch_search"
  THEN IF reqs[1].pc = "thrown"
       THEN Handled("done", call.key, reqs, errorEnvelope(reqs[1].result),
                    cache, stats, requests)
       ELSE LET result == parseSearchResponse(reqs[1].result, call.args.q) IN
            Handled("done", call.key, reqs,
                    resultEnvelope([success |-> TRUE, data |-> result]),
                    cacheSet(cache, call.key, result, t), stats, requests)
  ELSE LET responses ==
             [k \in 1..Len(reqs) |->
                IF reqs[k].pc = "thrown"
                THEN multiSearchFailure(call.args.queries[k], reqs[k].result)
                ELSE reqs[k].result]
       IN Handled("done", call.key, reqs,
                  resultEnvelope(parseMultiSearchResponse(responses,
                                                          call.args.queries)),
                  cache, stats, requests)

\* A step of one makeRequest of a waiting call: the call goes on waiting or,
\* when everything it awaits has settled, runs to its envelope.
progress_cachesFailure(call, reqs, t) ==
  IF settled(reqs)
  THEN LET h == resume(call, reqs, t) IN
       IF h.envelope.isError
       THEN [h EXCEPT !.cache = cacheSet(cache, call.key, h.envelope.text, t)]
       ELSE h
  ELSE Handled("waiting", call.key, reqs, NoEnvelope, cache, stats, requests)

progress(call, reqs, t) ==
  IF settled(reqs) THEN resume(call, reqs, t)
  ELSE Handled("waiting", call.key, reqs, NoEnvelope, cache, stats, requests)

\* The number of makeRequest calls made so far by the calls of cs.
RECURSIVE requestsMade(_)
requestsMade(cs) ==
  IF cs = <<>> THEN 0 ELSE Len(Head(cs).reqs) + requestsMade(Tail(cs))

\* n more entries of value t at the end of the upstream history.
RECURSIVE sentAt(_, _, _)
sentAt(log, n, t) == IF n = 0 THEN log ELSE sentAt(Append(log, t), n - 1, t)

\* ------------------------------------------------------ makeRequest alone

ClientInit ==
  /\ now = 0
  /\ Unused({"window", "boot", "parse", "key", "callers",
            "limiter", "retry", "server"})
  /\ config \in [maxRetries : 1..(MaxRetries + 1), retryDelay : {1},
                 mockMode : BOOLEAN, enableCache : {TRUE}, cacheTTL : {1},
                 cacheMaxSize : {10}]
  /\ creq = NewRequest("q1", "search")

\* apiClient.search(params): makeRequest starts and issues its first client.get.
ClientCall ==
  /\ creq.pc = "new"
  /\ creq' = startAttempt(creq, 1)
  /\ UNCHANGED <<now, config, outsideClient>>

\* The upstream answers the pending client.get.
ClientRespond ==
  /\ creq.pc = "http"
  /\ \E o \in ClientOutcomes : \E body \in Bodies :
       creq' = onResponse(creq, o, body, now)
  /\ UNCHANGED <<now, config, outsideClient>>

\* The timer of delay(retryDelay * attempt) fires.
ClientDelayDone ==
  /\ creq.pc = "delay"
  /\ now >= creq.wakeAt
  /\ creq' = afterDelay(creq)
  /\ UNCHANGED <<now, config, outsideClient>>

ClientTick ==
  /\ Tick
  /\ UNCHANGED <<config, creq, outsideClient>>

ClientNext == ClientCall \/ ClientRespond \/ ClientDelayDone \/ ClientTick

SpecClient == ClientInit /\ [][ClientNext]_vars

\* ------------------------------------------------------------ v2 server

\* What the /health request of the startup connectivity test can bring.
HealthOutcomes == {"ok", "s204", "s500", "timeout"}

\* PresearchAPIClient.testConnection: connected exactly on a 200 answer.
testConnection(o) == o = "ok"

\* The state after PresearchServer.initialize().  The configurations explored:
\* every limit and retry count with the limiter and the cache on, mock mode
\* off and the API reachable at startup, and each of these four departed from
\* alone on the largest limit and retry count.
V2Init ==
  /\ now = 0
  /\ Unused({"window", "boot", "parse", "key", "callers",
            "retry"})
  /\ limit \in 1..MaxLimit
  /\ windowMs = 2
  /\ enableRateLimit \in BOOLEAN
  /\ requests = <<>>
  /\ admitted = <<>>
  /\ lastCheck = [kind |-> "none"]
  /\ config \in [maxRetries : 1..MaxRetries, retryDelay : {1},
                 mockMode : BOOLEAN, enableCache : BOOLEAN, cacheTTL : {1},
                 cacheMaxSize : {10}]
  /\ \E o \in HealthOutcomes : isConnected = testConnection(o)
  /\ LET off == (IF enableRateLimit THEN 0 ELSE 1)
                + (IF config.mockMode THEN 1 ELSE 0)
                + (IF config.enableCache THEN 0 ELSE 1)
                + (IF isConnected THEN 0 ELSE 1)
     IN /\ off <= 1
        /\ off = 1 => (limit = MaxLimit /\ config.maxRetries = MaxRetries)
  /\ creq = [pc |-> "unused"]
  /\ ServerStart

\* A CallTool request arrives and runs to its envelope or to its first await.
V2CallTool ==
  /\ Len(calls) < MaxCalls
  /\ \E toolName \in {"presearch_search", "presearch_multi_search",
                       "presearch_cache_stats", "presearch_cache_clear",
                       "unknown_tool"} :
     \E args \in ArgsOf(toolName) :
       LET h == callTool(toolName, args, now) IN
       /\ requestsMade(calls) + Len(h.reqs) <= MaxRequests
       /\ calls' = Append(calls,
            [pc |-> h.pc, tool |-> toolName, args |-> args, key |-> h.key,
             reqs |-> h.reqs, envelope |-> h.envelope,
             admittedRL |-> checkLimitResult(requests, now),
             fresh |-> /\ toolName = "presearch_search"
                       /\ searchArgsValid(args)
                       /\ \E i \in 1..Len(cache) :
                            /\ cache[i].key = generateKey(SearchParams(args))
                            /\ now < cache[i].timestamp + cache[i].ttl])
       /\ cache' = h.cache
       /\ stats' = h.stats
       /\ requests' = h.requests
       /\ upstream' = sentAt(upstream, Cardinality({k \in 1..Len(h.reqs) : h.reqs[k].pc = "http"}), now)
  /\ UNCHANGED <<now, limit, windowMs, enableRateLimit, config, outsideServer>>

\* The upstream answers one pending client.get of a waiting call; the payload
\* that is not a list is drawn for the searches of a single query only.
V2Respond ==
  \E c \in 1..Len(calls) : \E k \in 1..Len(calls[c].reqs) :
    /\ calls[c].pc = "waiting"
    /\ calls[c].reqs[k].pc = "http"
    /\ \E o \in {"ok", "s429", "s500", "timeout"} :
       \E body \in {b \in Bodies : \/ calls[c].tool = "presearch_search"
                                   \/ b.resultsKind = "list"} :
         LET reqs == [calls[c].reqs EXCEPT
                        ![k] = onResponse(calls[c].reqs[k], o, body, now)]
             h == progress(calls[c], reqs, now)
         IN /\ calls' = [calls EXCEPT ![c].pc = h.pc, ![c].reqs = h.reqs,
                                      ![c].envelope = h.envelope]
            /\ cache' = h.cache
            /\ stats' = h.stats
    /\ UNCHANGED <<now, limit, windowMs, enableRateLimit, requests, config,
                   upstream, outsideServer>>

\* The retry delay of one makeRequest is over: its next client.get goes out.
V2DelayDone ==
  \E c \in 1..Len(calls) : \E k \in 1..Len(calls[c].reqs) :
    /\ calls[c].pc = "waiting"
    /\ calls[c].reqs[k].pc = "delay"
    /\ now >= calls[c].reqs[k].wakeAt
    /\ LET reqs == [calls[c].reqs EXCEPT ![k] = afterDelay(calls[c].reqs[k])]
           h == progress(calls[c], reqs, now)
       IN /\ calls' = [calls EXCEPT ![c].pc = h.pc, ![c].reqs = h.reqs,
                                    ![c].envelope = h.envelope]
          /\ cache' = h.cache
          /\ stats' = h.stats
          /\ upstream' = sentAt(upstream,
                                IF reqs[k].pc = "http" THEN 1 ELSE 0, now)
    /\ UNCHANGED <<now, limit, windowMs, enableRateLimit, requests, config,
                   outsideServer>>

V2Tick ==
  /\ now < V2MaxTime
  /\ now' = now + 1
  /\ UNCHANGED <<limit, windowMs, enableRateLimit, requests, config,
                 serverVars, outsideServer>>

\* The five-minute timer started by cacheManager.initialize().
V2CacheCleanup ==
  /\ config.enableCache
  /\ cache' = cacheCleanup(cache, now)
  /\ UNCHANGED <<now, limit, windowMs, enableRateLimit, requests, config,
                 stats, calls, upstream, outsideServer>>

\* The one-minute timer started by rateLimiter.initialize().
V2RateLimitCleanup ==
  /\ enableRateLimit
  /\ requests' = cleanup(requests, now)
  /\ UNCHANGED <<now, limit, windowMs, enableRateLimit, config, serverVars,
                 outsideServer>>

V2Next ==
  \/ V2CallTool
  \/ V2Respond
  \/ V2DelayDone
  \/ V2Tick
  \/ V2CacheCleanup
  \/ V2RateLimitCleanup

SpecV2 == V2Init /\ [][V2Next]_vars

\* ------------------------------------------------------------ cache keys

\* PresearchMCPServer.generateCacheKey of the enhanced server.
generateCacheKey(params) ==
  stringify(<<
    <<"query", trim(toLowerCase(property(params, "query")))>>,
    <<"page", IF property(params, "page") = Undefined THEN "1"
              ELSE property(params, "page")>>,
    <<"lang", property(params, "lang")>>,
    <<"time", property(params, "time")>>,
    <<"safe", property(params, "safe")>>,
    <<"location", property(params, "location")>>,
    <<"ip", property(params, "ip")>> >>)

\* The name of the query parameter in each server's schema.
queryName(server) == IF server = "v2" THEN "q" ELSE "query"

\* The properties a parameter object is built from.
Properties(server) ==
  {<<queryName(server), "cats">>, <<queryName(server), "Cats">>,
   <<"page", "1">>, <<"page", "2">>, <<"lang", "en">>, <<"lang", Undefined>>}

\* Every parameter object with a query and at most MaxProperties properties,
\* in every order of insertion.
ParamObjects(server) ==
  {obj \in UNION {[1..n -> Properties(server)] : n \in 1..MaxProperties} :
     /\ \A i, j \in 1..Len(obj) : obj[i][1] = obj[j][1] => i = j
     /\ \E i \in 1..Len(obj) : obj[i][1] = queryName(server)}

\* The properties of an object, whatever their order.
propertySet(obj) == {obj[i] : i \in 1..Len(obj)}

KeyInit ==
  /\ now = 0
  /\ Unused({"window", "boot", "parse", "limiter", "retry",
            "client", "server", "callers"})
  /\ \E server \in {"v2", "enhanced"} :
       \E p1 \in ParamObjects(server) : \E p2 \in ParamObjects(server) :
         fp = [pc |-> "new", server |-> server, p1 |-> p1, p2 |-> p2,
               k1 |-> <<>>, k2 |-> <<>>]

\* The v2 server computes the cache key of both objects.
KeyGenerate ==
  /\ fp.pc = "new"
  /\ fp.server = "v2"
  /\ fp' = [fp EXCEPT !.pc = "keyed", !.k1 = generateKey(fp.p1),
                      !.k2 = generateKey(fp.p2)]
  /\ UNCHANGED outsideKey

\* The enhanced server computes the cache key of both objects.
KeyGenerateEnhanced ==
  /\ fp.pc = "new"
  /\ fp.server = "enhanced"
  /\ fp' = [fp EXCEPT !.pc = "keyed", !.k1 = generateCacheKey(fp.p1),
                      !.k2 = generateCacheKey(fp.p2)]
  /\ UNCHANGED outsideKey

KeyNext == KeyGenerate \/ KeyGenerateEnhanced

SpecKey == KeyInit /\ [][KeyNext]_vars

\* ---------------------------------------------------- CacheManager alone

\* Callers hand the cache objects and keep references to them: the data of an
\* entry is the index of an object of `heap`.  A new object has a value of its
\* own (its index).  As history an object carries the value, the key and the
\* time it was passed to set with.
\* One key more than the cache can hold.
CacheKeys ==
  LET Queries == <<"q1", "q2", "q3", "q4">>
  IN  {generateKey(<<<<"q", Queries[i]>>>>) : i \in 1..(config.cacheMaxSize + 1)}

\* The value of an object after its holder has changed it.
Changed == 0

\* History, the last operation: for a get, what it found and what it left.
NoOp ==
  [kind |-> "none", key |-> <<>>, at |-> 0, hit |-> FALSE, ref |-> 0,
   value |-> 0, setAs |-> 0, had |-> FALSE, t0 |-> 0, ttl |-> 0,
   entryRef |-> 0, sizeBefore |-> 0, sizeAfter |-> 0, stored |-> FALSE]

Other == [NoOp EXCEPT !.kind = "other"]

\* The record of an operation on key at time t that takes the cache from c
\* to c2.
Op(kind, key, t, c, c2) ==
  LET i == cacheIndex(c, key) IN
  [NoOp EXCEPT !.kind = kind, !.key = key, !.at = t,
               !.had = (i # NoEntry),
               !.t0 = IF i # NoEntry THEN c[i].timestamp ELSE 0,
               !.ttl = IF i # NoEntry THEN c[i].ttl ELSE 0,
               !.entryRef = IF i # NoEntry THEN c[i].data ELSE 0,
               !.sizeBefore = Len(c), !.sizeAfter = Len(c2),
               !.stored = cacheHas(c2, key)]

\* The history after operation op: op itself; the set, if any, that came
\* directly before it; the number of objects set before the last clear;
\* whether nothing has been removed from the cache since that clear; and the
\* number of gets an enabled cache has served (clear starts the count anew).
record(op, runFrom, intact) ==
  [last |-> op,
   prevSet |-> IF hist.last.kind = "set" THEN hist.last ELSE NoOp,
   runFrom |-> runFrom, intact |-> intact,
   lookups |-> IF op.kind = "get" /\ config.enableCache
               THEN hist.lookups + 1 ELSE hist.lookups]

\* The configurations explored: every capacity with the shortest TTL, and
\* every TTL with the smallest capacity.
CacheInit ==
  /\ now = 0
  /\ Unused({"window", "boot", "parse", "limiter", "retry",
            "key", "server"})
  /\ creq = [pc |-> "unused"]
  /\ config \in [maxRetries : {1}, retryDelay : {1}, mockMode : {FALSE},
                 enableCache : BOOLEAN, cacheTTL : 1..MaxTTL,
                 cacheMaxSize : 1..MaxSize]
  /\ (config.cacheTTL = 1 \/ config.cacheMaxSize = 1)
  /\ heap = <<>>
  /\ hist = [last |-> NoOp, prevSet |-> NoOp, runFrom |-> 0, intact |-> TRUE,
             lookups |-> 0]

\* cacheManager.set(key, data) with a new object; ExtraSets more sets are made
\* than the cache can hold.
CacheSet ==
  /\ Len(heap) < config.cacheMaxSize + ExtraSets
  /\ \E key \in CacheKeys :
       LET ref == Len(heap) + 1
           c2 == cacheSet(cache, key, ref, now)
       IN /\ heap' = Append(heap, [value |-> ref, setAs |-> ref, key |-> key,
                                   at |-> now])
          /\ cache' = c2
          /\ hist' = record([NoOp EXCEPT !.kind = "set", !.key = key,
                                         !.at = now, !.ref = ref,
                                         !.had = cacheHas(cache, key),
                                         !.sizeBefore = Len(cache),
                                         !.sizeAfter = Len(c2)],
                            hist.runFrom, hist.intact)
  /\ UNCHANGED <<now, config, stats, outsideCache>>

\* cacheManager.get(key)
CacheGet ==
  /\ stats.hits + stats.misses < MaxGets
  /\ \E key \in CacheKeys :
       LET got == cacheGet(cache, stats, key, now) IN
       /\ cache' = got.cache
       /\ stats' = got.stats
       /\ hist' = record(
            IF got.hit
            THEN [Op("get", key, now, cache, got.cache) EXCEPT
                    !.hit = TRUE, !.ref = got.value,
                    !.value = heap[got.value].value,
                    !.setAs = heap[got.value].setAs]
            ELSE Op("get", key, now, cache, got.cache),
            hist.runFrom, hist.intact /\ Len(got.cache) = Len(cache))
  /\ UNCHANGED <<now, config, heap, outsideCache>>

\* cacheManager.delete(key)
CacheDelete ==
  /\ \E key \in CacheKeys :
       LET c2 == cacheDelete(cache, key) IN
       /\ cache' = c2
       /\ hist' = record(Other, hist.runFrom,
                         hist.intact /\ Len(c2) = Len(cache))
  /\ UNCHANGED <<now, config, stats, heap, outsideCache>>

\* cacheManager.deleteByPattern(pattern): "q1" is in one key, "q" in every key.
CacheDeleteByPattern ==
  /\ \E pattern \in {"q1", "q"} :
       LET c2 == deleteByPattern(cache, pattern) IN
       /\ cache' = c2
       /\ hist' = record(Other, hist.runFrom,
                         hist.intact /\ Len(c2) = Len(cache))
  /\ UNCHANGED <<now, config, stats, heap, outsideCache>>

\* cacheManager.clear()
CacheClear ==
  /\ cache' = <<>>
  /\ stats' = [hits |-> 0, misses |-> 0]
  /\ hist' = [record(Other, Len(heap), TRUE) EXCEPT !.lookups = 0]
  /\ UNCHANGED <<now, config, heap, outsideCache>>

\* The cleanup timer of an enabled cache.
CacheSweep ==
  /\ config.enableCache
  /\ LET c2 == cacheCleanup(cache, now) IN
     /\ cache' = c2
     /\ hist' = record(Other, hist.runFrom,
                       hist.intact /\ Len(c2) = Len(cache))
  /\ UNCHANGED <<now, config, stats, heap, outsideCache>>

\* A caller changes an object it passed to set or was handed by get.
CallerMutates ==
  /\ Cardinality({r \in 1..Len(heap) : heap[r].value = Changed}) < MaxMutations
  /\ \E ref \in 1..Len(heap) :
       /\ heap[ref].value # Changed
       /\ heap' = [heap EXCEPT ![ref].value = Changed]
       /\ hist' = record(Other, hist.runFrom, hist.intact)
  /\ UNCHANGED <<now, config, cache, stats, outsideCache>>

CacheTick ==
  /\ now < CacheMaxTime
  /\ now' = now + 1
  /\ UNCHANGED <<config, cache, stats, heap, hist, outsideCache>>

CacheNext ==
  \/ CacheSet
  \/ CacheGet
  \/ CacheDelete
  \/ CacheDeleteByPattern
  \/ CacheClear
  \/ CacheSweep
  \/ CallerMutates
  \/ CacheTick

SpecCache == CacheInit /\ [][CacheNext]_vars

\* ------------------------------------------------------------ server start

\* The environment a server is started in: PRESEARCH_API_KEY,
\* PRESEARCH_BASE_URL, PRESEARCH_MAX_RETRIES and PRESEARCH_MOCK_MODE, each
\* Undefined when unset.
Environments ==
  [apiKey : {Undefined, "short", "your-api-key-here", "valid-key-0123",
             "bad key!chars"},
   baseUrl : {Undefined, "https://api.presearch.org/v1", "not a url"},
   maxRetries : {Undefined, "0", "3", "11", "abc"},
   mockMode : {Undefined, "true", "false"}]

\* `new URL(u)` does not throw.
isUrl(u) == u = "https://api.presearch.org/v1"

\* /^[a-zA-Z0-9_-]+$/.test(key)

\* rawConfig of loadConfiguration, apiKey being `process.env... || ''`.
\* Configuration.parseNumber is parseInt, with undefined for an unset variable
\* and for NaN; Configuration.parseBoolean is undefined for an unset variable.
rawConfig(env) ==
  LET parseNumber(value) ==
        CASE value = "0" -> [defined |-> TRUE, value |-> 0]
          [] value = "3" -> [defined |-> TRUE, value |-> 3]
          [] value = "11" -> [defined |-> TRUE, value |-> 11]
          [] OTHER -> [defined |-> FALSE, value |-> 0]
      parseBoolean(value) ==
        CASE value = "true" -> [defined |-> TRUE, value |-> TRUE]
          [] value = "false" -> [defined |-> TRUE, value |-> FALSE]
          [] OTHER -> [defined |-> FALSE, value |-> FALSE]
  IN [apiKey |-> IF env.apiKey = Undefined THEN "" ELSE env.apiKey,
      baseUrl |-> env.baseUrl,
      maxRetries |-> parseNumber(env.maxRetries),
      mockMode |-> parseBoolean(env.mockMode)]

\* ConfigSchema.parse accepts the raw configuration.
ConfigSchemaAccepts(raw) ==
  /\ Len(raw.apiKey) >= 1
  /\ raw.baseUrl # Undefined => isUrl(raw.baseUrl)
  /\ raw.maxRetries.defined =>
       (raw.maxRetries.value >= 1 /\ raw.maxRetries.value <= 10)

\* ConfigSchema.parse: the values with the defaults filled in.
ConfigSchemaParse(raw) ==
  [apiKey |-> raw.apiKey,
   baseUrl |-> IF raw.baseUrl = Undefined THEN "https://api.presearch.org/v1"
               ELSE raw.baseUrl,
   maxRetries |-> IF raw.maxRetries.defined THEN raw.maxRetries.value ELSE 3,
   mockMode |-> raw.mockMode.defined /\ raw.mockMode.value]

\* Configuration.validateConfiguration: whether it throws, and the
\* configuration it leaves (a placeholder key switches mock mode on).
validateConfiguration(c) ==
  LET checksKey == ~c.mockMode /\ c.apiKey # "" IN
  [throws |-> \/ (checksKey /\ Len(c.apiKey) < 10)
              \/ ~isUrl(c.baseUrl),
   config |-> IF checksKey /\ c.apiKey \in {"your-api-key-here", "mock-api-key"}
              THEN [c EXCEPT !.mockMode = TRUE]
              ELSE c]

\* The configuration loadConfiguration returns from its catch block.
fallbackConfig ==
  [apiKey |-> "mock-api-key", baseUrl |-> "https://api.presearch.org/v1",
   maxRetries |-> 3, mockMode |-> TRUE]

\* Configuration.loadConfiguration
loadConfiguration(env) ==
  LET raw == rawConfig(env) IN
  IF ConfigSchemaAccepts(raw) /\ ~validateConfiguration(ConfigSchemaParse(raw)).throws
  THEN [isLoaded |-> TRUE,
        config |-> validateConfiguration(ConfigSchemaParse(raw)).config]
  ELSE [isLoaded |-> FALSE, config |-> fallbackConfig]

\* PresearchMCPServer.validateConfiguration of the enhanced server throws.
enhancedValidateConfiguration(env) ==
  LET apiKey == IF env.apiKey = Undefined THEN "" ELSE env.apiKey
      baseUrl == IF env.baseUrl = Undefined
                 THEN "https://na-us-1.presearch.com/v1" ELSE env.baseUrl
  IN \/ apiKey = ""
     \/ Len(apiKey) < 10
     \/ apiKey \notin {"short", "your-api-key-here", "valid-key-0123"}
     \/ (baseUrl # "https://na-us-1.presearch.com/v1" /\ ~isUrl(baseUrl))

BootInit ==
  /\ now = 0
  /\ Unused({"window", "limiter", "retry", "client", "server",
            "key", "callers", "parse"})
  /\ \E server \in {"v2", "enhanced"} : \E env \in Environments :
       boot = [pc |-> "env", server |-> server, env |-> env,
               config |-> fallbackConfig, isLoaded |-> FALSE,
               connected |-> FALSE]

\* The module configuration.ts is loaded: `new Configuration()`, which
\* never throws.
BootLoadConfiguration ==
  /\ boot.pc = "env"
  /\ boot.server = "v2"
  /\ LET loaded == loadConfiguration(boot.env) IN
     boot' = [boot EXCEPT !.pc = "loaded",
                          !.config = loaded.config,
                          !.isLoaded = loaded.isLoaded]
  /\ UNCHANGED outsideBoot

\* PresearchServer.initialize: the connectivity test, the handlers, the
\* transport.
BootInitialize ==
  /\ boot.pc = "loaded"
  /\ \E o \in HealthOutcomes :
       boot' = [boot EXCEPT !.pc = "serving", !.connected = testConnection(o)]
  /\ UNCHANGED outsideBoot

\* `new PresearchMCPServer()` of the enhanced server.
BootConstructEnhanced ==
  /\ boot.pc = "env"
  /\ boot.server = "enhanced"
  /\ boot' = [boot EXCEPT !.pc = IF enhancedValidateConfiguration(boot.env)
                                 THEN "fatal" ELSE "serving"]
  /\ UNCHANGED outsideBoot

BootNext == BootLoadConfiguration \/ BootInitialize \/ BootConstructEnhanced

SpecBoot == BootInit /\ [][BootNext]_vars

\* ------------------------------------------------------------ the parser

MaxItems == 2

\* The raw items and the responses handed to parseSearchResponse.
Responses ==
  LET RawItems ==
        {Item(url, link, timestamp) :
           url \in {"", "u1"}, link \in {"", "l1"},
           timestamp \in {NoTimestamp, 0}}
        \cup {[isObject |-> FALSE, url |-> "", link |-> "",
                timestamp |-> NoTimestamp]}
      Totals == {0, 1, 5}
  IN {Payload("list", items, total) :
        items \in UNION {[1..n -> RawItems] : n \in 0..MaxItems},
        total \in Totals}
     \cup {Payload(kind, <<>>, total) : kind \in {"missing", "notlist"},
                                        total \in Totals}
     \cup {[isObject |-> FALSE, resultsKind |-> "missing", results |-> <<>>,
             total |-> 0, source |-> Undefined]}

ParseInit ==
  /\ now = 0
  /\ Unused({"window", "limiter", "retry", "client", "server",
            "key", "callers", "boot"})
  /\ \E response \in Responses :
       parsed = [pc |-> "input", response |-> response, via |-> "none",
                 out |-> Null]

\* responseParser.parseSearchResponse(response, query, operation)
ParseSearchResponse ==
  /\ parsed.pc = "input"
  /\ parsed' = [parsed EXCEPT !.pc = "parsed", !.via = "direct",
                               !.out = parseSearchResponse(parsed.response, "q1")]
  /\ UNCHANGED outsideParse

\* The same on what processResponse makes of the upstream payload, as
\* handleSearch does; processResponse throws on a payload that is not an
\* object.
ParseProcessedResponse ==
  /\ parsed.pc = "input"
  /\ parsed.response.isObject
  /\ parsed' = [parsed EXCEPT
                  !.pc = "parsed", !.via = "client",
                  !.out = parseSearchResponse(
                            processResponse("q1", parsed.response), "q1")]
  /\ UNCHANGED outsideParse

ParseNext == ParseSearchResponse \/ ParseProcessedResponse

SpecParse == ParseInit /\ [][ParseNext]_vars

\* ------------------------------------------------------- RateLimiter alone

RLInit ==
  /\ now = 0
  /\ Unused({"window", "boot", "parse", "key", "callers",
            "retry", "client", "server"})
  /\ limit \in 1..MaxLimit
  /\ windowMs \in 1..MaxWindow
  /\ enableRateLimit \in BOOLEAN
  /\ requests = <<>>
  /\ admitted = <<>>
  /\ lastCheck = [kind |-> "none"]

RLTick ==
  /\ Tick
  /\ UNCHANGED <<rlVars, outsideRL>>

\* A call of rateLimiter.checkLimit().
RLCheckLimit ==
  /\ requests' = checkLimitRequests(requests, now)
  /\ admitted' = IF enableRateLimit /\ checkLimitResult(requests, now)
                 THEN Append(admitted, now) ELSE admitted
  /\ lastCheck' = [kind |-> "check", at |-> now,
                   result |-> checkLimitResult(requests, now),
                   inWindow |-> AdmittedIn(now - windowMs, now),
                   admittedBefore |-> admitted,
                   afterRefusal |-> (lastCheck.kind = "check" /\ ~lastCheck.result)]
  /\ UNCHANGED <<now, limit, windowMs, enableRateLimit, outsideRL>>

\* A call of rateLimiter.getStatus() or isLimitExceeded(): both clean up first.
RLGetStatus ==
  /\ requests' = cleanup(requests, now)
  /\ UNCHANGED <<now, limit, windowMs, enableRateLimit, admitted, lastCheck,
                 outsideRL>>

\* The setInterval callback installed by initialize() when the limiter is on.
RLCleanupTimer ==
  /\ enableRateLimit
  /\ requests' = cleanup(requests, now)
  /\ UNCHANGED <<now, limit, windowMs, enableRateLimit, admitted, lastCheck,
                 outsideRL>>

RLNext == RLTick \/ RLCheckLimit \/ RLGetStatus \/ RLCleanupTimer

SpecRL == RLInit /\ [][RLNext]_vars

\* ------------------------------------- enhanced server: the limiter alone

\* PresearchMCPServer.checkRateLimit at the clock reading t: whether it
\* throws, and the limiter it leaves behind.  `passed` is history: the time
\* of every call that went through.
checkRateLimit(rl, t) ==
  LET w == IF t - rl.windowStart >= rl.windowSize
           THEN [rl EXCEPT !.requests = 0, !.windowStart = t]
           ELSE rl
  IN IF w.requests >= w.maxRequests
     THEN [throws |-> TRUE, rateLimiter |-> w]
     ELSE [throws |-> FALSE,
           rateLimiter |-> [w EXCEPT !.requests = @ + 1,
                                     !.passed = Append(@, t)]]

\* initializeComponents: no request counted, the window starts at Date.now().
WindowInit ==
  /\ now = 0
  /\ Unused({"boot", "parse", "key", "callers", "limiter", "retry", "client",
             "server"})
  /\ \E windowSize \in 1..MaxWindow : \E maxRequests \in 1..MaxLimit :
       rateLimiter = [pc |-> "on", requests |-> 0, windowStart |-> now,
                      windowSize |-> windowSize, maxRequests |-> maxRequests,
                      passed |-> <<>>]

\* handleSearch calls checkRateLimit() for a search with valid arguments.
WindowCheckRateLimit ==
  /\ rateLimiter' = checkRateLimit(rateLimiter, now).rateLimiter
  /\ UNCHANGED <<now, outsideWindow>>

WindowTick ==
  /\ Tick
  /\ UNCHANGED <<rateLimiter, outsideWindow>>

WindowNext == WindowCheckRateLimit \/ WindowTick

SpecWindow == WindowInit /\ [][WindowNext]_vars

\* ------------------------------------------------------------------ claims

\* C2: with rate limiting enabled, every window of windowMs consecutive clock
\* readings (a, a + windowMs] holds at most `limit` admitted calls; a call that
\* finds `limit` admissions inside its own window is refused; and the recorded
\* timestamp list never holds more than `limit` entries.
C2_SlidingWindowBound ==
  enableRateLimit =>
    /\ \A a \in (0 - windowMs)..MaxTime : AdmittedIn(a, a + windowMs) <= limit
    /\ Len(requests) <= limit
    /\ (lastCheck.kind = "check" /\ lastCheck.inWindow >= limit)
         => lastCheck.result = FALSE

\* C2 witness: the call after `limit` admissions in one window was refused.
C2_Witness ==
  /\ enableRateLimit
  /\ lastCheck.kind = "check"
  /\ lastCheck.inWindow = limit
  /\ lastCheck.result = FALSE
  /\ Len(requests) = limit

\* C3: a checkLimit call made when every admission so far lies a full window
\* (windowMs or more) in the past is admitted, whatever was refused before.
C3_RecoversAfterWindow ==
  (/\ lastCheck.kind = "check"
   /\ \A j \in 1..Len(lastCheck.admittedBefore) :
         lastCheck.at - lastCheck.admittedBefore[j] >= windowMs)
    => lastCheck.result = TRUE

\* C3 witness: a refusing limiter admits again once the window has elapsed.
C3_Witness ==
  /\ enableRateLimit
  /\ lastCheck.kind = "check"
  /\ lastCheck.afterRefusal
  /\ Len(lastCheck.admittedBefore) = limit
  /\ \A j \in 1..Len(lastCheck.admittedBefore) :
        lastCheck.at - lastCheck.admittedBefore[j] = windowMs
  /\ lastCheck.result = TRUE
\* C6: performSearchWithRetry makes at most maxRetries + 1 attempts; it returns
\* exactly when an attempt succeeds (after k retryable failures, on attempt
\* k + 1), and it gives up on retryable failures only after exactly
\* maxRetries + 1 attempts.
C6_RetryAttempts ==
  rq.pc # "unused" =>
    LET n == Len(rq.log) IN
    /\ n <= retryConfig.maxRetries + 1
    /\ (n > 0 /\ rq.log[n] = "ok") <=> rq.pc = "returned"
    /\ \A i \in 1..n : i < n => rq.log[i] # "ok"
    /\ (rq.pc = "thrown" /\ \A i \in 1..n : RetryableKind(rq.log[i]))
         => n = retryConfig.maxRetries + 1
    /\ rq.pc = "http" => n = rq.attempt
    /\ rq.pc = "sleep" => n = rq.attempt + 1

\* C6 witness: maxRetries retryable failures, then a success that is returned.
C6_Witness ==
  /\ rq.pc = "returned"
  /\ retryConfig.maxRetries = MaxRetries
  /\ Len(rq.log) = MaxRetries + 1
  /\ \A i \in 1..MaxRetries : RetryableKind(rq.log[i])

C1_RepeatServedFromCache ==
  \A c \in 1..Len(calls) :
    (calls[c].fresh /\ calls[c].admittedRL) =>
      /\ calls[c].pc = "done"
      /\ calls[c].reqs = <<>>
      /\ ~calls[c].envelope.isError
      /\ calls[c].envelope.text.cached = TRUE

\* C4: a tool call refused by the rate limiter gets an error envelope whose
\* code is RATE_LIMIT_ERROR.
C4_DenialIsRateLimitKind ==
  \A c \in 1..Len(calls) :
    ~calls[c].admittedRL =>
      /\ calls[c].envelope.isError
      /\ calls[c].envelope.text.code = "RATE_LIMIT_ERROR"

\* C5: with rate limiting enabled, every interval (a, a + windowMs] of the clock
\* holds at most `limit` upstream HTTP requests of the server.
C5_UpstreamWithinLimit ==
  enableRateLimit =>
    \A a \in (0 - windowMs)..V2MaxTime :
      Cardinality({i \in 1..Len(upstream) :
                     a < upstream[i] /\ upstream[i] <= a + windowMs}) <= limit

\* C8: in makeRequest a 400, 401, 403 or 429 answer is the last attempt of the
\* request: no client.get and no retry delay follows it.
C8_NonRetryableNotRetried ==
  creq.pc # "unused" =>
    \A i \in 1..Len(creq.log) :
      creq.log[i] \in {"s400", "s401", "s403", "s429"} =>
        /\ i = Len(creq.log)
        /\ creq.pc \in {"thrown", "returned"}
        /\ Len(creq.delays) = i - 1

\* C9: a makeRequest call that is over and whose every attempt failed with a
\* retryable kind has made exactly maxRetries + 1 attempts.
C9_AttemptsAreMaxRetriesPlusOne ==
  (/\ creq.pc \in {"thrown", "returned"}
   /\ \A i \in 1..Len(creq.log) :
         creq.log[i] \notin {"ok", "s400", "s401", "s403", "s429"})
    => Len(creq.log) = config.maxRetries + 1

C11_MockIffMockMode ==
  creq.pc \in {"returned", "thrown"} =>
    LET n == Len(creq.log) IN
    /\ n >= 1
    /\ \A i \in 1..(n - 1) : creq.log[i] # "ok"
    /\ creq.log[n] = "ok" =>
         /\ creq.pc = "returned"
         /\ creq.result.source = "presearch-api"
    /\ creq.log[n] # "ok" =>
         /\ creq.pc = "returned" <=> config.mockMode
         /\ creq.pc = "returned" =>
              /\ creq.result.success
              /\ creq.result.source = "mock-data"
              /\ creq.result.query = creq.q
         /\ creq.pc = "thrown" => creq.result.name = "PresearchError"

\* C11 witness: mock mode on, two attempts that both failed, mock data returned.
C11_Witness ==
  /\ config.mockMode
  /\ config.maxRetries >= 2
  /\ creq.pc = "returned"
  /\ Len(creq.log) = config.maxRetries
  /\ \A i \in 1..Len(creq.log) : creq.log[i] # "ok"
  /\ creq.result.source = "mock-data"

\* C12: with mock mode configured the server sends no HTTP request upstream
\* for any tool call.
C12_MockModeNoUpstream ==
  config.mockMode => upstream = <<>>

\* C13: after a failed startup connectivity test, a finished presearch_search
\* whose upstream attempts all failed is answered with mock data, not with an
\* error envelope.
C13_MockAfterFailedStartup ==
  ~isConnected =>
    \A c \in 1..Len(calls) :
      (/\ calls[c].tool = "presearch_search"
       /\ calls[c].pc = "done"
       /\ Len(calls[c].reqs) = 1
       /\ \A i \in 1..Len(calls[c].reqs[1].log) : calls[c].reqs[1].log[i] # "ok")
        => /\ ~calls[c].envelope.isError
           /\ calls[c].envelope.text.data.source = "mock-data"

\* C14: with the cache enabled, once maxSize + 1 pairwise distinct keys have
\* been set into the empty cache, nothing was removed by delete,
\* deleteByPattern, sweep or an expired get, and no more than the TTL has
\* passed since the first set, the cache holds exactly maxSize entries: those of all the
\* keys but the first one set.
C14_EvictsFirstInserted ==
  (/\ config.enableCache
   /\ hist.intact
   /\ Len(heap) - hist.runFrom = config.cacheMaxSize + 1
   /\ \A i, j \in (hist.runFrom + 1)..Len(heap) :
         heap[i].key = heap[j].key => i = j
   /\ now - heap[hist.runFrom + 1].at <= defaultTTL)
    => /\ Len(cache) = config.cacheMaxSize
       /\ \A i \in 1..Len(cache) :
             cache[i].key = heap[hist.runFrom + 1 + i].key

\* C15: an enabled cache never holds more than cacheMaxSize entries.
C15_SizeWithinMax ==
  config.enableCache => Len(cache) <= config.cacheMaxSize

\* C16: with the cache enabled, a get of a key whose entry was stored at t0
\* with TTL T returns that entry's data when t - t0 < T and reports it absent
\* when t - t0 > T, in which case the entry is gone from the store afterwards;
\* a get returns data only for a stored entry with t - t0 <= T.
C16_ExpiryOnGet ==
  (config.enableCache /\ hist.last.kind = "get") =>
    LET g == hist.last IN
    /\ (g.had /\ g.at - g.t0 < g.ttl) => (g.hit /\ g.ref = g.entryRef)
    /\ (g.had /\ g.at - g.t0 > g.ttl) => (~g.hit /\ ~g.stored)
    /\ g.hit => (g.had /\ g.at - g.t0 <= g.ttl /\ g.ref = g.entryRef)
    /\ g.hit => g.stored

\* C16 witness: a get made more than the TTL after the entry was stored found
\* nothing and removed the entry.
C16_Witness ==
  /\ config.enableCache
  /\ hist.last.kind = "get"
  /\ hist.last.had
  /\ hist.last.at - hist.last.t0 > hist.last.ttl
  /\ ~hist.last.hit
  /\ hist.last.sizeAfter = hist.last.sizeBefore - 1

\* C17: with the cache enabled, a get(k) that directly follows set(k, r) at the
\* same clock reading returns the object r that was set, with the value it was
\* set with.
C17_SetThenGet ==
  (/\ config.enableCache
   /\ hist.last.kind = "get"
   /\ hist.prevSet.kind = "set"
   /\ hist.prevSet.key = hist.last.key
   /\ hist.prevSet.at = hist.last.at)
    => /\ hist.last.hit
       /\ hist.last.ref = hist.prevSet.ref
       /\ hist.last.value = heap[hist.prevSet.ref].setAs

\* C17 witness: the set found the store at capacity with other keys and evicted
\* an entry, and the get that followed returned what was set.
C17_Witness ==
  /\ config.enableCache
  /\ hist.last.kind = "get"
  /\ hist.prevSet.kind = "set"
  /\ hist.prevSet.key = hist.last.key
  /\ hist.prevSet.at = hist.last.at
  /\ ~hist.prevSet.had
  /\ hist.prevSet.sizeBefore = config.cacheMaxSize
  /\ hist.prevSet.sizeAfter = config.cacheMaxSize
  /\ hist.last.hit
  /\ hist.last.ref = hist.prevSet.ref

\* C18: what get returns for a key has the value that was passed to set,
\* whatever callers did since to the objects they hold.
C18_GetReturnsWhatWasSet ==
  (hist.last.kind = "get" /\ hist.last.hit) =>
    hist.last.value = hist.last.setAs

\* C19: two parameter objects of the v2 server with the same properties, in
\* whatever order, get the same key from generateKey.
C19_KeyOrderIndependent ==
  (/\ fp.pc = "keyed"
   /\ fp.server = "v2"
   /\ propertySet(fp.p1) = propertySet(fp.p2))
    => fp.k1 = fp.k2

\* C19 witness: three properties inserted in two different orders, one key.
C19_Witness ==
  /\ fp.pc = "keyed"
  /\ fp.server = "v2"
  /\ Len(fp.p1) = 3
  /\ Len(fp.p2) = 3
  /\ propertySet(fp.p1) = propertySet(fp.p2)
  /\ fp.p1 # fp.p2
  /\ fp.p1[1] = fp.p2[3]
  /\ fp.k1 = fp.k2

\* C20: two parameter objects of the v2 server that differ only in the letter
\* case of the query get the same key from generateKey.
C20_KeyCaseFoldsQuery ==
  (/\ fp.pc = "keyed"
   /\ fp.server = "v2"
   /\ Len(fp.p1) = Len(fp.p2)
   /\ \A i \in 1..Len(fp.p1) :
        /\ fp.p1[i][1] = fp.p2[i][1]
        /\ IF fp.p1[i][1] = "q"
           THEN toLowerCase(fp.p1[i][2]) = toLowerCase(fp.p2[i][2])
           ELSE fp.p1[i][2] = fp.p2[i][2])
    => fp.k1 = fp.k2

\* C21: a presearch_multi_search call that was admitted with n valid queries
\* has n makeRequest calls, all started at once; it waits exactly as long as
\* one of them is unsettled, whatever the others did; and once done its
\* envelope is a success whose data has n entries in input order, entry k
\* holding the results of query k when its makeRequest returned and its own
\* error message when it threw, with `successful` the number that returned.
C21_MultiSearchAggregates ==
  \A c \in 1..Len(calls) :
    (/\ calls[c].tool = "presearch_multi_search"
     /\ calls[c].admittedRL
     /\ multiArgsValid(calls[c].args))
      => LET call == calls[c]
             n == Len(call.args.queries)
         IN /\ Len(call.reqs) = n
            /\ \A k \in 1..n : call.reqs[k].pc # "new" /\ call.reqs[k].attempt >= 1
            /\ (call.pc = "waiting") = ~settled(call.reqs)
            /\ call.pc = "done" =>
                 LET data == call.envelope.text.data IN
                 /\ ~call.envelope.isError
                 /\ call.envelope.text.success
                 /\ data.queries = n
                 /\ Len(data.results) = n
                 /\ \A k \in 1..n :
                      /\ data.results[k].query = call.args.queries[k]
                      /\ call.reqs[k].pc = "returned" =>
                           /\ ~hasError(data.results[k])
                           /\ data.results[k].results =
                                normalizeSearchResults(call.reqs[k].result.results)
                      /\ call.reqs[k].pc = "thrown" =>
                           /\ data.results[k].error = call.reqs[k].result.message
                           /\ data.results[k].source = "error"
                 /\ data.successful =
                      Cardinality({k \in 1..n : call.reqs[k].pc = "returned"})
                 /\ data.successful +
                      Cardinality({k \in 1..n : call.reqs[k].pc = "thrown"}) = n

\* C21 witness: a finished multi-search whose first query failed on every
\* attempt and whose second query succeeded.
C21_Witness ==
  \E c \in 1..Len(calls) :
    /\ calls[c].tool = "presearch_multi_search"
    /\ calls[c].pc = "done"
    /\ Len(calls[c].reqs) = 2
    /\ calls[c].reqs[1].pc = "thrown"
    /\ calls[c].reqs[2].pc = "returned"
    /\ ~calls[c].envelope.isError
    /\ calls[c].envelope.text.data.successful = 1

\* C22: every tool call that has ended has ended with an envelope, success
\* content or error content with isError set, and never with an exception
\* thrown out of the call-tool handler; stated for the search tool of the
\* enhanced server.
C22_EveryCallEndsInEnvelope ==
  rq.pc \in {"returned", "thrown"} =>
    LET out == enhancedHandleSearch(rq) IN
    /\ out.kind = "content"
    /\ rq.pc = "thrown" => out.isError

\* C23: a call of a tool that is not registered ends at once with an error
\* envelope whose code is a not-found kind, and makes no upstream request.
C23_UnknownToolNotFound ==
  \A c \in 1..Len(calls) :
    calls[c].tool = "unknown_tool" =>
      /\ calls[c].pc = "done"
      /\ calls[c].reqs = <<>>
      /\ calls[c].envelope.isError
      /\ calls[c].envelope.text.code \in {"NOT_FOUND", "NOT_FOUND_ERROR"}

\* C24: any two finished presearch_search calls for the same query that were
\* both answered with mock data have the same results.
C24_MockDeterministic ==
  \A c, d \in 1..Len(calls) :
    (/\ calls[c].tool = "presearch_search" /\ calls[d].tool = "presearch_search"
     /\ calls[c].pc = "done" /\ calls[d].pc = "done"
     /\ ~calls[c].envelope.isError /\ ~calls[d].envelope.isError
     /\ calls[c].args.q = calls[d].args.q
     /\ Len(calls[c].reqs) = 1 /\ Len(calls[d].reqs) = 1
     /\ calls[c].reqs[1].result.source = "mock-data"
     /\ calls[d].reqs[1].result.source = "mock-data")
      => calls[c].envelope.text.data.results = calls[d].envelope.text.data.results

\* C25: a presearch_search call the limiter admitted whose query is empty
\* once trimmed ends at once with a validation error, without a cache key
\* having been looked up and without an upstream request.
C25_BlankQueryRejected ==
  \A c \in 1..Len(calls) :
    (/\ calls[c].tool = "presearch_search"
     /\ calls[c].admittedRL
     /\ trim(calls[c].args.q) = "")
      => /\ calls[c].pc = "done"
         /\ calls[c].key = NoKey
         /\ calls[c].reqs = <<>>
         /\ calls[c].envelope.isError
         /\ calls[c].envelope.text.code = "VALIDATION_ERROR"

\* C26: a server that has reached the serving state was started in an
\* environment with an API key of at least the minimum length, a well-formed
\* base URL (or none) and, for the v2 server, which alone reads
\* PRESEARCH_MAX_RETRIES, a retry count within its range (or none).
C26_InvalidConfigurationFatal ==
  boot.pc = "serving" =>
    /\ boot.env.apiKey # Undefined
    /\ Len(boot.env.apiKey) >= 10
    /\ boot.env.baseUrl # Undefined => isUrl(boot.env.baseUrl)
    /\ boot.server = "v2" => boot.env.maxRetries \notin {"0", "11"}

\* C27: the results of a parsed response with a result list are the raw
\* items that have a url or a link, in their order, each with that url; none
\* has an empty url; and total is the payload's total (or, without one, the
\* number of raw items) less the items dropped.
C27_NormalizedResults ==
  (parsed.pc = "parsed" /\ parsed.response.isObject
   /\ parsed.response.resultsKind = "list") =>
    LET raw == parsed.response.results
        usable == SelectSeq(raw, LAMBDA item :
                              item.isObject /\ (item.url # "" \/ item.link # ""))
        counted == IF parsed.response.total # 0 THEN parsed.response.total
                   ELSE Len(raw)
    IN /\ Len(parsed.out.results) = Len(usable)
       /\ \A i \in 1..Len(usable) :
            /\ parsed.out.results[i].url # ""
            /\ parsed.out.results[i].url =
                 (IF usable[i].url # "" THEN usable[i].url ELSE usable[i].link)
       /\ parsed.out.total = counted - (Len(raw) - Len(usable))

\* C28: a parsed response whose input had no results, results that are not a
\* list, or was not an object has an empty result list and a total of 0.
C28_UnparseableGivesEmpty ==
  (parsed.pc = "parsed"
   /\ (~parsed.response.isObject \/ parsed.response.resultsKind # "list"))
    => /\ parsed.out.results = <<>>
       /\ parsed.out.total = 0

\* C29: the code of the error a request ends with tells the kind of its last
\* upstream failure: no failure that the table of kinds (401 auth, 403
\* forbidden, 404 not-found, 422 bad-request, 429 rate-limit, 5xx server,
\* timeout, DNS or refused network, other statuses generic) puts under
\* another kind is classified under the same code.
C29_KindsDistinct ==
  LET kind(o) ==
        CASE o = "s401" -> "auth"
          [] o = "s403" -> "forbidden"
          [] o = "s404" -> "not-found"
          [] o = "s422" -> "bad-request"
          [] o = "s429" -> "rate-limit"
          [] o \in {"s500", "s501", "s502", "s503", "s504"} -> "server"
          [] o = "timeout" -> "timeout"
          [] o \in {"dns", "refused"} -> "network"
          [] OTHER -> "api"
      listed == ClientOutcomes \ {"ok", "badbody", "neterr"}
  IN (creq.pc = "thrown" /\ creq.log[Len(creq.log)] \in listed) =>
       \A o \in listed :
         kind(o) # kind(creq.log[Len(creq.log)]) =>
           handleError(attemptError(o)).code # creq.result.code

\* C30: the rate limiter holds a slot only for calls that passed validation
\* and missed the cache, that is for calls that went on to the upstream: a
\* call that failed validation, a call answered from the cache and a cache
\* management call hold none.
C30_LimiterAfterValidationAndCache ==
  enableRateLimit =>
    Len(requests) <= Cardinality({c \in 1..Len(calls) : calls[c].reqs # <<>>})

\* C31: a tool call that checkLimit refuses records nothing: the limiter's
\* list after it is the list before it without the entries that left the
\* window, no request goes to the upstream for it, and the cache and its
\* counters are as before.
C31_RefusalRecordsNothing ==
  [][(Len(calls') = Len(calls) + 1 /\ ~calls'[Len(calls')].admittedRL) =>
       /\ requests' = cleanup(requests, now)
       /\ calls'[Len(calls')].reqs = <<>>
       /\ upstream' = upstream
       /\ cache' = cache
       /\ stats' = stats]_vars

\* A search that would have been answered from a live cache entry is refused
\* while the limiter's list is full.
C31_Witness ==
  \E c \in 1..Len(calls) :
    /\ ~calls[c].admittedRL
    /\ calls[c].tool = "presearch_search"
    /\ calls[c].fresh
    /\ Len(requests) = limit
    /\ cache # <<>>

\* C32: every get on an enabled cache adds one to exactly one counter: to hits
\* when it returns a live entry, whose own hit count then grows by one, and to
\* misses when the key is absent or its entry expired; hits + misses is the
\* number of gets since the last clear; set, delete, deleteByPattern, the
\* sweep and eviction leave the counters alone.
C32_CountersCountLookups ==
  /\ [](config.enableCache => stats.hits + stats.misses = hist.lookups)
  /\ [][IF hist'.lookups = hist.lookups + 1
        THEN LET op == hist'.last
                 i == cacheIndex(cache, op.key)
                 live == i # NoEntry /\ ~(now > cache[i].timestamp + cache[i].ttl)
             IN /\ op.hit <=> live
                /\ live => /\ stats' = [stats EXCEPT !.hits = @ + 1]
                           /\ cache' = [cache EXCEPT ![i].hits = @ + 1]
                /\ ~live => stats' = [stats EXCEPT !.misses = @ + 1]
        ELSE hist'.lookups = hist.lookups => stats' = stats]_vars

\* A get that found its entry expired, after a get that was a hit.
C32_Witness ==
  /\ config.enableCache
  /\ hist.last.kind = "get"
  /\ hist.last.had
  /\ ~hist.last.hit
  /\ stats = [hits |-> 1, misses |-> 1]

\* C33: the cache sweep, at whatever point between the steps of the tool
\* calls in flight it runs, removes exactly the entries that are strictly past
\* their expiry (now > timestamp + ttl): the live entries stay as they are and
\* in their order, and no expired entry is left.  A step that changes the
\* cache and no tool call is a step of the sweep.
C33_SweepRemovesExactlyExpired ==
  [][(cache' # cache /\ calls' = calls) =>
       /\ cache' = SelectSeq(cache, LAMBDA e : ~(now > e.timestamp + e.ttl))
       /\ \A i \in 1..Len(cache') : ~(now > cache'[i].timestamp + cache'[i].ttl)
       /\ stats' = stats]_vars

\* The sweep has run between the cache read and the cache write of a search
\* in flight: an earlier search stored its result under another key, that
\* entry is gone, and nothing but the sweep can have removed it.
C33_Witness ==
  /\ config.enableCache
  /\ Len(calls) = 2
  /\ calls[1].tool = "presearch_search" /\ calls[1].pc = "done"
  /\ ~calls[1].envelope.isError /\ calls[1].reqs # <<>>
  /\ calls[2].tool = "presearch_search" /\ calls[2].pc = "waiting"
  /\ calls[2].key # calls[1].key
  /\ cache = <<>>

\* C34: the delay slept after failed attempt a (a = 0 for the first) is
\* min(baseDelay * backoffFactor^a, maxDelay); the delays never decrease and
\* never exceed maxDelay; one delay lies between two consecutive attempts and
\* none follows the last attempt.
C34_BackoffDelays ==
  LET n == Len(rq.sleeps)
      uncapped(a) == retryConfig.baseDelay * pow(retryConfig.backoffFactor, a)
  IN rq.pc # "unused" =>
       /\ \A k \in 1..n :
            /\ rq.sleeps[k] = IF uncapped(k - 1) <= retryConfig.maxDelay
                              THEN uncapped(k - 1) ELSE retryConfig.maxDelay
            /\ rq.sleeps[k] <= retryConfig.maxDelay
            /\ k > 1 => rq.sleeps[k - 1] <= rq.sleeps[k]
       /\ rq.pc = "idle" => n = 0
       /\ rq.pc = "http" => (n = Len(rq.log) /\ n = rq.attempt)
       /\ rq.pc = "sleep" => n = Len(rq.log)
       /\ rq.pc \in {"returned", "thrown"} => n = Len(rq.log) - 1

\* Three attempts have failed and the second delay was cut down to maxDelay.
C34_Witness ==
  /\ rq.pc = "thrown"
  /\ Len(rq.log) = 3
  /\ Len(rq.sleeps) = 2
  /\ retryConfig.baseDelay * retryConfig.backoffFactor > retryConfig.maxDelay
  /\ rq.sleeps[2] = retryConfig.maxDelay

\* C35: the limiter of the enhanced server bounds every interval of length
\* windowSize: at most maxRequests calls pass it within (a - windowSize, a],
\* for every a up to now, the intervals across a reset of the window included.
C35_EnhancedLimiterSlides ==
  rateLimiter.pc = "on" =>
    \A a \in 0..now :
      Cardinality({k \in 1..Len(rateLimiter.passed) :
                     /\ rateLimiter.passed[k] > a - rateLimiter.windowSize
                     /\ rateLimiter.passed[k] <= a})
        <= rateLimiter.maxRequests

\* C36: a search that arrives while an identical search is waiting for the
\* upstream, the cache holding no live entry of their key, sends a request of
\* its own to the upstream; and a search that ends with a result leaves the cache entry of
\* its key holding that result, written whole at that moment, whatever an
\* identical search that ended before it had stored.
C36_OverlappingSearches ==
  [][/\ \A c1 \in 1..Len(calls) :
          LET c2 == Len(calls') IN
          (/\ Len(calls') = Len(calls) + 1
           /\ calls[c1].pc = "waiting"
           /\ calls[c1].tool = "presearch_search"
           /\ calls'[c2].tool = "presearch_search"
           /\ calls'[c2].args = calls[c1].args
           /\ calls'[c2].admittedRL
           /\ ~\E i \in 1..Len(cache) :
                 /\ cache[i].key = calls[c1].key
                 /\ now <= cache[i].timestamp + cache[i].ttl)
          => /\ calls'[c2].pc = "waiting"
             /\ ~calls'[c2].fresh
             /\ Len(calls'[c2].reqs) = 1
             /\ upstream' = Append(upstream, now)
             /\ \A i \in 1..Len(cache') : cache'[i].key # calls[c1].key
     /\ \A c \in 1..Len(calls) :
          (/\ Len(calls') = Len(calls)
           /\ calls[c].pc = "waiting" /\ calls'[c].pc = "done"
           /\ calls[c].tool = "presearch_search"
           /\ ~calls'[c].envelope.isError
           /\ config.enableCache)
          => LET i == cacheIndex(cache', calls[c].key) IN
             /\ i # NoEntry
             /\ cache'[i] = [key |-> calls[c].key,
                             data |-> calls'[c].envelope.text.data,
                             timestamp |-> now, ttl |-> defaultTTL, hits |-> 0]
             /\ Len(cache') <= Len(cache) + 1]_vars

\* Two identical searches were in flight together and ended with different
\* results; the cache holds the result of the one that was called first, so
\* that one ended last.
C36_Witness ==
  /\ config.enableCache
  /\ Len(calls) = 2
  /\ calls[1].tool = "presearch_search" /\ calls[2].tool = "presearch_search"
  /\ calls[1].args = calls[2].args
  /\ calls[1].pc = "done" /\ calls[2].pc = "done"
  /\ calls[1].reqs # <<>> /\ calls[2].reqs # <<>>
  /\ ~calls[1].envelope.isError /\ ~calls[2].envelope.isError
  /\ calls[1].envelope.text.data # calls[2].envelope.text.data
  /\ Len(cache) = 1
  /\ cache[1].data = calls[1].envelope.text.data

C38_SyntheticResultsCached ==
  [][LET synthetic(data) == data.source \in {"mock-data", "error-fallback"} IN
     /\ \A c \in 1..Len(calls) :
          (/\ Len(calls') = Len(calls)
           /\ calls[c].pc = "waiting" /\ calls'[c].pc = "done"
           /\ calls[c].tool = "presearch_search"
           /\ ~calls'[c].envelope.isError
           /\ synthetic(calls'[c].envelope.text.data)
           /\ config.enableCache)
          => \E i \in 1..Len(cache') :
               cache'[i] = [key |-> calls[c].key,
                            data |-> calls'[c].envelope.text.data,
                            timestamp |-> now, ttl |-> defaultTTL, hits |-> 0]
     /\ \A i \in 1..Len(cache) :
          (/\ Len(calls') = Len(calls) + 1
           /\ config.enableCache
           /\ synthetic(cache[i].data)
           /\ now <= cache[i].timestamp + cache[i].ttl
           /\ calls'[Len(calls')].tool = "presearch_search"
           /\ searchArgsValid(calls'[Len(calls')].args)
           /\ generateKey(SearchParams(calls'[Len(calls')].args)) = cache[i].key
           /\ calls'[Len(calls')].admittedRL)
          => /\ calls'[Len(calls')].pc = "done"
             /\ calls'[Len(calls')].reqs = <<>>
             /\ calls'[Len(calls')].envelope.text = cache[i].data
             /\ upstream' = upstream]_vars

\* A search got mock data after its attempts had failed, and the identical
\* search after it was answered with that stored mock data.
C38_Witness ==
  /\ config.enableCache /\ config.mockMode
  /\ Len(calls) = 2
  /\ calls[1].tool = "presearch_search" /\ calls[2].tool = "presearch_search"
  /\ calls[1].args = calls[2].args
  /\ calls[1].pc = "done" /\ calls[1].reqs # <<>>
  /\ ~calls[1].envelope.isError
  /\ calls[1].envelope.text.data.source = "mock-data"
  /\ calls[2].pc = "done" /\ calls[2].reqs = <<>>
  /\ ~calls[2].envelope.isError
  /\ calls[2].envelope.text = calls[1].envelope.text.data
  /\ Len(upstream) = Len(calls[1].reqs[1].log)

\* C39: a search answered from the cache returns what the search that filled
\* the entry returned: the {success, data} wrapper around the same data, the
\* cached flag apart.
C39_HitShapedLikeMiss ==
  \A c1, c2 \in 1..Len(calls) :
    (/\ calls[c1].tool = "presearch_search" /\ calls[c2].tool = "presearch_search"
     /\ calls[c1].pc = "done" /\ calls[c2].pc = "done"
     /\ calls[c1].reqs # <<>> /\ ~calls[c1].envelope.isError
     /\ calls[c2].reqs = <<>> /\ ~calls[c2].envelope.isError
     /\ calls[c2].key = calls[c1].key)
    => /\ DOMAIN calls[c2].envelope.text = DOMAIN calls[c1].envelope.text
       /\ calls[c2].envelope.text.success
       /\ [calls[c2].envelope.text.data EXCEPT !.cached = FALSE]
            = calls[c1].envelope.text.data

====
